---- MODULE Spec2Model ----
(***************************************************************************)
(* VapeCrawler: the similarity grouper and the catalog reconciler of       *)
(* VapeSort.py.                                                            *)
(*                                                                         *)
(* Text is a sequence of one-character strings.  A Hangul syllable is one  *)
(* character, as in Python, and is written "k_" followed by its            *)
(* romanisation ("k_ne" "k_seu" "k_ti" is the brand name that 'nasty' is   *)
(* folded to); the star of the stop list is written "star".                *)
(***************************************************************************)
EXTENDS Integers, Sequences, FiniteSets, TLC

(***************************************************************************)
(* Characters                                                              *)
(***************************************************************************)
UpperLetters ==
  <<"A","B","C","D","E","F","G","H","I","J","K","L","M",
    "N","O","P","Q","R","S","T","U","V","W","X","Y","Z">>

LowerLetters ==
  <<"a","b","c","d","e","f","g","h","i","j","k","l","m",
    "n","o","p","q","r","s","t","u","v","w","x","y","z">>

Digits == <<"0","1","2","3","4","5","6","7","8","9">>

\* The Hangul syllables of the stop list, the alias table and the titles,
\* each with its code point.
HangulCode ==
  [k_jeong |-> 51221, k_pum |-> 54408, k_sae |-> 49352, k_sang |-> 49345,
   k_ip |-> 51077, k_ho |-> 54840, k_heup |-> 55137, k_pye |-> 54224,
   k_aek |-> 50529, k_syap |-> 49397, k_teuk |-> 53945, k_ga |-> 44032,
   k_hal |-> 54624, k_in |-> 51064, k_jeo |-> 51200, k_nong |-> 45453,
   k_do |-> 46020, k_peul |-> 54540, k_rek |-> 47113, k_seu |-> 49828,
   k_ne |-> 45348, k_ti |-> 54000, k_meo |-> 47672, k_teu |-> 53944,
   k_ju |-> 51564, k_al |-> 50508, k_ke |-> 52992, k_ma |-> 47560,
   k_teo |-> 53552, k_re |-> 47112, k_bo |-> 48372, k_u |-> 50864,
   k_ri |-> 47532, k_kwi |-> 53300, k_deu |-> 46300, k_deo |-> 45908,
   k_beul |-> 48660, k_raek |-> 47001, k_yu |-> 50976, k_ni |-> 45768,
   k_kon |-> 53080, k_min |-> 48124, k_hu |-> 54980, k_ji |-> 51648,
   k_ko |-> 53076, k_tin |-> 54004]

IsHangul(c) == c \in DOMAIN HangulCode

IndexIn(seq, c) == CHOOSE k \in 1..Len(seq) : seq[k] = c

IsUpper(c) == \E k \in 1..Len(UpperLetters) : UpperLetters[k] = c

IsLower(c) == \E k \in 1..Len(LowerLetters) : LowerLetters[k] = c

IsDigit(c) == \E k \in 1..Len(Digits) : Digits[k] = c

\* \s of the regular expressions; the titles of the model hold no other
\* white space than the blank.
IsSpace(c) == c = " "

\* str.lower() on one character.
LowerChar(c) == IF IsUpper(c) THEN LowerLetters[IndexIn(UpperLetters, c)] ELSE c

\* ord(c): the code point, which orders the tokens in sorted().
Ord(c) ==
  IF IsHangul(c) THEN HangulCode[c]
  ELSE IF IsUpper(c) THEN 64 + IndexIn(UpperLetters, c)
  ELSE IF IsLower(c) THEN 96 + IndexIn(LowerLetters, c)
  ELSE IF IsDigit(c) THEN 47 + IndexIn(Digits, c)
  ELSE IF c = " " THEN 32
  ELSE IF c = "%" THEN 37
  ELSE IF c = "(" THEN 40
  ELSE IF c = ")" THEN 41
  ELSE IF c = "," THEN 44
  ELSE IF c = "-" THEN 45
  ELSE IF c = "." THEN 46
  ELSE IF c = "/" THEN 47
  ELSE IF c = "[" THEN 91
  ELSE IF c = "]" THEN 93
  ELSE IF c = "|" THEN 124
  ELSE 9733

(***************************************************************************)
(* String helpers: str.replace / re.sub of a literal, str.strip            *)
(***************************************************************************)
MatchesAt(text, i, pat) ==
  /\ i + Len(pat) - 1 <= Len(text)
  /\ \A k \in 1..Len(pat) : text[i + k - 1] = pat[k]

RECURSIVE ReplaceFrom(_, _, _, _)
ReplaceFrom(text, i, pat, rep) ==
  IF i > Len(text) THEN <<>>
  ELSE IF MatchesAt(text, i, pat)
       THEN rep \o ReplaceFrom(text, i + Len(pat), pat, rep)
       ELSE <<text[i]>> \o ReplaceFrom(text, i + 1, pat, rep)

\* text.replace(pat, rep), re.sub(pat, rep, text) for a literal pat.
ReplaceAll(text, pat, rep) == ReplaceFrom(text, 1, pat, rep)

Contains(text, pat) == \E i \in 1..(Len(text) - Len(pat) + 1) : MatchesAt(text, i, pat)

StartsWith(text, pat) == MatchesAt(text, 1, pat)

\* The first position at or after i that holds no white space.
RECURSIVE SkipSpaces(_, _)
SkipSpaces(text, i) ==
  IF i <= Len(text) /\ IsSpace(text[i]) THEN SkipSpaces(text, i + 1) ELSE i

\* The first position at or after i that holds no digit.
RECURSIVE SkipDigits(_, _)
SkipDigits(text, i) ==
  IF i <= Len(text) /\ IsDigit(text[i]) THEN SkipDigits(text, i + 1) ELSE i

\* re.sub(r'\s+', ' ', text).strip()
RECURSIVE CollapseFrom(_, _)
CollapseFrom(text, i) ==
  IF i > Len(text) THEN <<>>
  ELSE IF IsSpace(text[i])
       THEN LET j == SkipSpaces(text, i)
            IN  IF j > Len(text) THEN <<>> ELSE <<" ">> \o CollapseFrom(text, j)
       ELSE <<text[i]>> \o CollapseFrom(text, i + 1)

CollapseSpaces(text) == CollapseFrom(text, SkipSpaces(text, 1))

(***************************************************************************)
(* normalize_title_text                                                    *)
(***************************************************************************)
Lower(text) == [k \in 1..Len(text) |-> LowerChar(text[k])]

RECURSIVE StripRight(_)
StripRight(text) ==
  IF Len(text) > 0 /\ IsSpace(text[Len(text)])
  THEN StripRight(SubSeq(text, 1, Len(text) - 1))
  ELSE text

\* re.sub(r'\s*\|\s*.*$', '', text): the leftmost match starts at the white
\* space in front of the first '|' and runs to the end of the text.
RemoveSellerTag(text) ==
  IF \E p \in 1..Len(text) : text[p] = "|"
  THEN LET p == CHOOSE q \in 1..Len(text) :
                  text[q] = "|" /\ \A r \in 1..(q - 1) : text[r] # "|"
       IN  StripRight(SubSeq(text, 1, p - 1))
  ELSE text

\* re.sub(r'[\[\]()]', '', text)
IsBracket(c) == c \in {"[", "]", "(", ")"}

RemoveBrackets(text) == SelectSeq(text, LAMBDA c : ~IsBracket(c))

\* common_words_to_remove; "k_hal k_in" and the star are one entry, the two
\* literals being adjacent in the source list without a comma.
common_words_to_remove ==
  << <<"k_jeong","k_pum">>, <<"k_sae","k_sang","k_pum">>,
     <<"k_ip","k_ho","k_heup">>, <<"k_pye","k_ho","k_heup">>,
     <<"k_aek","k_sang","k_syap">>, <<"k_teuk","k_ga">>,
     <<"k_hal","k_in","star">>, <<"k_jeo","k_nong","k_do">> >>

RECURSIVE RemoveWords(_, _, _)
RemoveWords(text, words, k) ==
  IF k > Len(words) THEN text
  ELSE RemoveWords(ReplaceAll(text, words[k], <<>>), words, k + 1)

\* re.sub(r'vip(?!k_ju k_seu)', 'vip k_ju k_seu', text)
RECURSIVE FoldVip(_, _)
FoldVip(text, i) ==
  IF i > Len(text) THEN <<>>
  ELSE IF /\ MatchesAt(text, i, <<"v","i","p">>)
          /\ ~MatchesAt(text, i + 3, <<"k_ju","k_seu">>)
       THEN <<"v","i","p","k_ju","k_seu">> \o FoldVip(text, i + 3)
       ELSE <<text[i]>> \o FoldVip(text, i + 1)

Alkemaster == <<"k_al","k_ke","k_ma","k_seu","k_teo">>

\* re.sub(r'<alkemaster>(?!\s)', '<alkemaster> ', text)
RECURSIVE FoldAlkemaster(_, _)
FoldAlkemaster(text, i) ==
  IF i > Len(text) THEN <<>>
  ELSE IF /\ MatchesAt(text, i, Alkemaster)
          /\ ~(i + 5 <= Len(text) /\ IsSpace(text[i + 5]))
       THEN Alkemaster \o <<" ">> \o FoldAlkemaster(text, i + 5)
       ELSE <<text[i]>> \o FoldAlkemaster(text, i + 1)

BlackUnicorn == <<"k_beul","k_raek","k_yu","k_ni","k_kon">>

\* No brand substitution.
KeepBrands(text) == text

\* The brand substitutions, in source order.
FoldBrands(text) ==
  LET t1 == ReplaceAll(text, <<"j","u","i","c","e"," ","b","o","x">>,
                             <<"j","u","i","c","e","b","o","x">>)
      t2 == ReplaceAll(t1, <<"k_peul","k_rek","k_seu"," ","x">>,
                           <<"k_peul","k_rek","k_seu","x">>)
      t3 == ReplaceAll(t2, <<"n","a","s","t","y">>, <<"k_ne","k_seu","k_ti">>)
      t4 == ReplaceAll(t3, <<"m","u","s","t">>, <<"k_meo","k_seu","k_teu">>)
      t5 == FoldVip(t4, 1)
      t6 == FoldAlkemaster(t5, 1)
      t7 == ReplaceAll(t6, <<"k_re","k_in","k_bo","k_u"," ","k_ri","k_kwi","k_deu">>,
                           <<"k_re","k_in","k_bo","k_u","k_ri","k_kwi","k_deu">>)
      t8 == ReplaceAll(t7, <<"k_deo"," ","k_beul","k_raek">>,
                           <<"k_deo","k_beul","k_raek">>)
      t9 == ReplaceAll(t8, <<"b","l","v","k">>, BlackUnicorn)
  IN  ReplaceAll(t9, BlackUnicorn \o <<"k_aek","k_sang"," ","b","l","v","k">>,
                 BlackUnicorn)

\* re.sub(r'^new\s+', '', text)
RemoveNewPrefix(text) ==
  IF StartsWith(text, <<"n","e","w">>) /\ Len(text) >= 4 /\ IsSpace(text[4])
  THEN SubSeq(text, SkipSpaces(text, 4), Len(text))
  ELSE text

\* The product-name substitutions, in source order.
FoldProductNames(text) ==
  LET t1 == ReplaceAll(text, <<"m","i","n","t">>, <<"k_min","k_teu">>)
      t2 == ReplaceAll(t1, <<"f","u","j","i">>, <<"k_hu","k_ji">>)
  IN  RemoveNewPrefix(t2)

\* The unit alternatives of the two annotation patterns, in source order.
VolumeUnits ==
  << <<"m","g","/","m","l">>, <<"m","g">>, <<"m","l">>, <<"%">>, <<>> >>

NicotineUnits ==
  << <<"m","g","/","m","l">>, <<"m","g">>, <<"%">>,
     <<"k_ni","k_ko","k_tin">>, <<"s","-","n","i","c">>,
     <<"r","s","-","n","i","c">> >>

\* The length of the first alternative of units that matches at i, -1 if none.
UnitLenAt(text, i, units) ==
  IF \E k \in 1..Len(units) : MatchesAt(text, i, units[k])
  THEN Len(units[CHOOSE k \in 1..Len(units) :
                   /\ MatchesAt(text, i, units[k])
                   /\ \A m \in 1..(k - 1) : ~MatchesAt(text, i, units[m])])
  ELSE -1

\* re.sub(r'(\d+\.?\d*)\s*(mg/ml|mg|ml|%|)', '', text): the last alternative
\* is empty, so every run of digits is removed, with a unit or without.
RECURSIVE StripVolume(_, _)
StripVolume(text, i) ==
  IF i > Len(text) THEN <<>>
  ELSE IF IsDigit(text[i])
       THEN LET a == SkipDigits(text, i)
                b == IF a <= Len(text) /\ text[a] = "." THEN a + 1 ELSE a
                c == SkipDigits(text, b)
                d == SkipSpaces(text, c)
            IN  StripVolume(text, d + UnitLenAt(text, d, VolumeUnits))
       ELSE <<text[i]>> \o StripVolume(text, i + 1)

\* re.sub(r'(\d+(\.\d+)?)\s*(mg/ml|mg|%|...)', '', text): a number is removed
\* only together with a unit.
RECURSIVE StripNicotine(_, _)
StripNicotine(text, i) ==
  IF i > Len(text) THEN <<>>
  ELSE IF IsDigit(text[i])
       THEN LET a == SkipDigits(text, i)
                c == IF /\ a + 1 <= Len(text)
                        /\ text[a] = "."
                        /\ IsDigit(text[a + 1])
                     THEN SkipDigits(text, a + 1) ELSE a
                d == SkipSpaces(text, c)
                u == UnitLenAt(text, d, NicotineUnits)
            IN  IF u >= 0 THEN StripNicotine(text, d + u)
                ELSE <<text[i]>> \o StripNicotine(text, i + 1)
       ELSE <<text[i]>> \o StripNicotine(text, i + 1)

normalize_title_text(text) ==
  IF Len(text) = 0 THEN <<>>
  ELSE LET t1 == Lower(text)
           t2 == RemoveSellerTag(t1)
           t3 == RemoveBrackets(t2)
           t4 == RemoveWords(t3, common_words_to_remove, 1)
           t5 == FoldBrands(t4)
           t6 == FoldProductNames(t5)
           t7 == StripVolume(t6, 1)
           t8 == ReplaceAll(ReplaceAll(t7, <<" ", ".">>, <<>>), <<" ", ",">>, <<>>)
           t9 == StripNicotine(t8, 1)
       IN  CollapseSpaces(t9)

(***************************************************************************)
(* normalize_product_grouping_key                                          *)
(***************************************************************************)
\* re.sub(r'[^a-zA-Z0-9<Hangul>\s]', '', text)
IsKeyChar(c) == IsUpper(c) \/ IsLower(c) \/ IsDigit(c) \/ IsHangul(c) \/ IsSpace(c)

RemoveSpecials(text) == SelectSeq(text, LAMBDA c : IsKeyChar(c))

\* The pairs of adjacent syllables between which the automatic spacing of
\* PyKoSpacing puts a blank.
SpacingBreaks == { <<"k_ti", "k_min">>, <<"k_seu", "k_min">> }

\* spacing(text): blanks are added, none is removed.
RECURSIVE Spacing(_, _)
Spacing(text, i) ==
  IF i > Len(text) THEN <<>>
  ELSE IF i < Len(text) /\ <<text[i], text[i + 1]>> \in SpacingBreaks
       THEN <<text[i], " ">> \o Spacing(text, i + 1)
       ELSE <<text[i]>> \o Spacing(text, i + 1)

\* The position of the first blank at or after i, Len(text) + 1 if none.
RECURSIVE TokenEnd(_, _)
TokenEnd(text, i) ==
  IF i <= Len(text) /\ ~IsSpace(text[i]) THEN TokenEnd(text, i + 1) ELSE i

\* text.split()
RECURSIVE Split(_, _)
Split(text, i) ==
  LET a == SkipSpaces(text, i)
  IN  IF a > Len(text) THEN <<>>
      ELSE LET b == TokenEnd(text, a)
           IN  <<SubSeq(text, a, b - 1)>> \o Split(text, b)

\* ' '.join(words)
RECURSIVE Join(_, _)
Join(words, k) ==
  IF k > Len(words) THEN <<>>
  ELSE IF k = Len(words) THEN words[k]
  ELSE words[k] \o <<" ">> \o Join(words, k + 1)

\* a < b for two strings: by code point, a proper prefix first.
RECURSIVE StrLess(_, _, _)
StrLess(a, b, k) ==
  IF k > Len(b) THEN FALSE
  ELSE IF k > Len(a) THEN TRUE
  ELSE IF Ord(a[k]) # Ord(b[k]) THEN Ord(a[k]) < Ord(b[k])
  ELSE StrLess(a, b, k + 1)

\* w put into a descending list, after the words that are not smaller.
RECURSIVE InsertDesc(_, _, _)
InsertDesc(sorted, w, k) ==
  IF k > Len(sorted) THEN Append(sorted, w)
  ELSE IF StrLess(sorted[k], w, 1)
       THEN SubSeq(sorted, 1, k - 1) \o <<w>> \o SubSeq(sorted, k, Len(sorted))
       ELSE InsertDesc(sorted, w, k + 1)

\* sorted(words, reverse=True)
RECURSIVE SortDesc(_, _, _)
SortDesc(words, k, acc) ==
  IF k > Len(words) THEN acc
  ELSE SortDesc(words, k + 1, InsertDesc(acc, words[k], 1))

\* A join of the words in the order they have.
UnsortedJoin(text) == Join(Split(text, 1), 1)

\* ' '.join(sorted(text.split(), reverse=True))
SortedJoin(text) == Join(SortDesc(Split(text, 1), 1, <<>>), 1)

normalize_product_grouping_key(normalized_title) ==
  LET t1 == RemoveSpecials(normalized_title)
      t2 == Lower(t1)
      t3 == CollapseSpaces(t2)
      t4 == Spacing(t3, 1)
      t5 == SortedJoin(t4)
      t6 == CollapseSpaces(t5)
  IN  SortedJoin(t6)

(***************************************************************************)
(* compute_levenshtein_similarity, prefilter_candidates                    *)
(***************************************************************************)
Min2(a, b) == IF a <= b THEN a ELSE b

Max2(a, b) == IF a >= b THEN a ELSE b

Abs(a) == IF a >= 0 THEN a ELSE 0 - a

\* One row of the edit-distance table: cur[j + 1] is the distance between
\* the first i characters of a and the first j characters of b.
RECURSIVE LevRow(_, _, _, _, _, _)
LevRow(a, b, i, prev, j, cur) ==
  IF j > Len(b) THEN cur
  ELSE LET cost == IF a[i] = b[j] THEN 0 ELSE 1
           best == Min2(Min2(prev[j + 1] + 1, cur[j] + 1), prev[j] + cost)
       IN  LevRow(a, b, i, prev, j + 1, Append(cur, best))

RECURSIVE LevRows(_, _, _, _)
LevRows(a, b, i, prev) ==
  IF i > Len(a) THEN prev
  ELSE LevRows(a, b, i + 1, LevRow(a, b, i, prev, 1, <<i>>))

\* Levenshtein.distance(str1, str2)
LevenshteinDistance(str1, str2) ==
  LevRows(str1, str2, 1, [j \in 1..(Len(str2) + 1) |-> j - 1])[Len(str2) + 1]

\* A similarity is the fraction <<numerator, denominator>>.
\* 0.0 when one of the strings is empty (also when both are), else
\* 1 - dist / max_len.
compute_levenshtein_similarity(str1, str2) ==
  IF Len(str1) = 0 \/ Len(str2) = 0 THEN <<0, 1>>
  ELSE LET dist == LevenshteinDistance(str1, str2)
           max_len == Max2(Len(str1), Len(str2))
       IN  <<max_len - dist, max_len>>

\* p >= q for two fractions with positive denominators.
FracGE(p, q) == p[1] * q[2] >= q[1] * p[2]

CharSet(text) == {text[k] : k \in 1..Len(text)}

\* length_ratio of prefilter_candidates, and its character-set bound.
length_ratio == <<3, 10>>

jaccard_min == <<1, 2>>

\* The division by max(len_i, len_j) fails when both titles are empty.
PrefilterRaises(title_i, all_titles) ==
  \E j \in 1..Len(all_titles) : Max2(Len(title_i), Len(all_titles[j])) = 0

\* Whether title_j passes both pre-filters of title_i.
PassesPrefilter(title_i, title_j) ==
  LET len_i == Len(title_i)
      len_j == Len(title_j)
      set_i == CharSet(title_i)
      set_j == CharSet(title_j)
  IN  /\ ~(Abs(len_i - len_j) * length_ratio[2] > length_ratio[1] * Max2(len_i, len_j))
      /\ Cardinality(set_i \cap set_j) * jaccard_min[2]
           >= jaccard_min[1] * Cardinality(set_i \cup set_j)

\* The candidate indices, ascending.
prefilter_candidates(title_i, all_titles) ==
  SelectSeq([j \in 1..Len(all_titles) |-> j],
            LAMBDA j : PassesPrefilter(title_i, all_titles[j]))

(***************************************************************************)
(* Listings                                                                *)
(***************************************************************************)
\* The titles of the scraped listings.
title_nasty_en == <<"N","A","S","T","Y"," ","M","i","n","t"," ","3","0","m","l">>

title_nasty_ko == <<"k_ne","k_seu","k_ti"," ","k_min","k_teu"," ","3","0","m","l">>

title_lemon == <<"l","e","m","o","n">>

title_melon == <<"m","e","l","o","n">>

title_lemur == <<"l","e","m","u","r">>

title_volume == <<"3","0","m","l">>

\* One scraped record, as the crawlers write it and
\* load_and_integrate_products completes it.
Listing(title, price, url, image_url, source_file, product_type) ==
  [title |-> title, price |-> price, url |-> url, image_url |-> image_url,
   source_file |-> source_file, product_type |-> product_type]

\* The category labels, the keys of the result files.
Categories == <<"iphoheup", "pyehoheup">>

\* The similarity thresholds: 0.6, the default 0.85 of
\* group_products_by_similarity and the 0.95 of the production flow.
Thresholds == { <<3, 5>>, <<17, 20>>, <<19, 20>> }

production_threshold == <<19, 20>>

(***************************************************************************)
(* State                                                                   *)
(***************************************************************************)
VARIABLES
  all_category_products, \* the loaded mapping: a sequence of [category, products]
  threshold,             \* the threshold of this grouping
  normalized_titles,     \* per category: the normalized titles, by position
  used,                  \* per category: the shared set of assigned positions
  groups,                \* per category: the groups, as sequences of positions
  futures,               \* per category: the tasks of the current batch
  cat_pc,                \* per category: where process_category stands
  batch_no,              \* per category: the number of the current batch
  merging,               \* per category: the future whose result is being merged
  grouper_pc             \* "idle", "running", "returned" or "raised"

gvars == <<all_category_products, threshold, normalized_titles, used, groups,
           futures, cat_pc, batch_no, merging, grouper_pc>>

CatIds == 1..Len(all_category_products)

products_of(c) == all_category_products[c].products

(***************************************************************************)
(* group_products_by_similarity                                            *)
(***************************************************************************)
\* batch_size = min(1000, len(products))
batch_limit == 1000

batch_size(products) == Min2(batch_limit, Len(products))

\* The number of batches of a non-empty list.
batch_count(products) ==
  (Len(products) + batch_size(products) - 1) \div batch_size(products)

\* The positions of batch b.
batch_positions(products, b) ==
  [k \in 1..(Min2(b * batch_size(products), Len(products))
               - (b - 1) * batch_size(products))
     |-> (b - 1) * batch_size(products) + k]

\* products.index(prod_i): the first position that holds an equal record.
index_of(products, prod_i) ==
  CHOOSE k \in 1..Len(products) :
    products[k] = prod_i /\ \A m \in 1..(k - 1) : products[m] # prod_i

\* cached_similarity: the memoized compute_levenshtein_similarity.
cached_similarity(str1, str2) == compute_levenshtein_similarity(str1, str2)

\* A process_product that takes every seed for taken.
seed_always_taken(i, used_c) == TRUE

\* if i in used: return None
seed_taken(i, used_c) == i \in used_c

\* if i == j or j in used or j in local_used: continue
candidate_skipped(i, j, used_c, local_used) ==
  i = j \/ j \in used_c \/ j \in local_used

\* A comparison that leaves out the similarity equal to the threshold.
exceeds_threshold(sim, thr) == FracGE(sim, thr) /\ ~FracGE(thr, sim)

\* if sim >= threshold
meets_threshold(sim, thr) == FracGE(sim, thr)

\* The first position of cand at or after pos that is not the seed itself.
RECURSIVE next_pos(_, _, _)
next_pos(cand, pos, i) ==
  IF pos <= Len(cand) /\ cand[pos] = i THEN next_pos(cand, pos + 1, i) ELSE pos

\* A task of process_product for seed position i, as submitted.
new_future(i) ==
  [i |-> i, st |-> "queued", cand |-> <<>>, pos |-> 1, group |-> <<>>,
   local_used |-> {}, result |-> "unset", consumed |-> FALSE]

\* The futures of batch b: one per record of the batch whose first equal
\* position is not in used when the batch is submitted.
submit_batch(products, b, used_c) ==
  LET idx == batch_positions(products, b)
      seeds == [k \in 1..Len(idx) |-> index_of(products, products[idx[k]])]
      kept == SelectSeq(seeds, LAMBDA i : i \notin used_c)
  IN  [k \in 1..Len(kept) |-> new_future(kept[k])]

\* process_category up to the first submit: the titles are normalized, the
\* batches are cut (range() with step 0 raises for an empty list) and the
\* first batch is submitted.
StartCategory(c) ==
  /\ grouper_pc = "running"
  /\ cat_pc[c] = "start"
  /\ normalized_titles' = [normalized_titles EXCEPT ![c] =
       [k \in 1..Len(products_of(c)) |->
          normalize_title_text(IF "title" \in DOMAIN products_of(c)[k]
                               THEN products_of(c)[k].title ELSE <<>>)]]
  /\ IF Len(products_of(c)) = 0
     THEN /\ cat_pc' = [cat_pc EXCEPT ![c] = "raised"]
          /\ UNCHANGED <<futures, batch_no>>
     ELSE /\ cat_pc' = [cat_pc EXCEPT ![c] = "collect"]
          /\ batch_no' = [batch_no EXCEPT ![c] = 1]
          /\ futures' = [futures EXCEPT ![c] = submit_batch(products_of(c), 1, used[c])]
  /\ UNCHANGED <<all_category_products, threshold, used, groups, merging, grouper_pc>>

\* A pool thread takes a queued task: process_product up to its first read
\* of a candidate.
StartProduct(c, f) ==
  /\ grouper_pc = "running"
  /\ f \in 1..Len(futures[c])
  /\ futures[c][f].st = "queued"
  /\ LET t == futures[c][f]
         titles == normalized_titles[c]
     IN  futures' = [futures EXCEPT ![c][f] =
           IF seed_taken(t.i, used[c])
           THEN [t EXCEPT !.st = "done", !.result = "none"]
           ELSE IF PrefilterRaises(titles[t.i], titles)
           THEN [t EXCEPT !.st = "done", !.result = "raised"]
           ELSE LET cand == prefilter_candidates(titles[t.i], titles)
                    pos == next_pos(cand, 1, t.i)
                IN  [t EXCEPT !.cand = cand, !.pos = pos, !.group = <<t.i>>,
                              !.st = IF pos > Len(cand) THEN "done" ELSE "running",
                              !.result = IF pos > Len(cand) THEN "tuple" ELSE "unset"]]
  /\ UNCHANGED <<all_category_products, threshold, normalized_titles, used, groups,
                 cat_pc, batch_no, merging, grouper_pc>>

\* One turn of the candidate loop of process_product: the shared set is
\* read once, for candidate j.
ScanCandidate(c, f) ==
  /\ grouper_pc = "running"
  /\ f \in 1..Len(futures[c])
  /\ futures[c][f].st = "running"
  /\ LET t == futures[c][f]
         titles == normalized_titles[c]
         j == t.cand[t.pos]
         joins == /\ ~candidate_skipped(t.i, j, used[c], t.local_used)
                  /\ meets_threshold(cached_similarity(titles[t.i], titles[j]), threshold)
         pos == next_pos(t.cand, t.pos + 1, t.i)
     IN  futures' = [futures EXCEPT ![c][f] =
           [t EXCEPT !.group = IF joins THEN Append(t.group, j) ELSE t.group,
                     !.local_used = IF joins THEN t.local_used \cup {j} ELSE t.local_used,
                     !.pos = pos,
                     !.st = IF pos > Len(t.cand) THEN "done" ELSE "running",
                     !.result = IF pos > Len(t.cand) THEN "tuple" ELSE "unset"]]
  /\ UNCHANGED <<all_category_products, threshold, normalized_titles, used, groups,
                 cat_pc, batch_no, merging, grouper_pc>>

\* as_completed yields a finished future: a None result is passed over, an
\* exception of the task is raised again, and of a tuple the seed is added
\* to used.
TakeResult(c, f) ==
  /\ grouper_pc = "running"
  /\ cat_pc[c] = "collect"
  /\ f \in 1..Len(futures[c])
  /\ futures[c][f].st = "done"
  /\ ~futures[c][f].consumed
  /\ futures' = [futures EXCEPT ![c][f].consumed = TRUE]
  /\ LET t == futures[c][f]
     IN  CASE t.result = "none" ->
                UNCHANGED <<used, cat_pc, merging>>
           [] t.result = "raised" ->
                /\ cat_pc' = [cat_pc EXCEPT ![c] = "raised"]
                /\ UNCHANGED <<used, merging>>
           [] OTHER ->
                /\ used' = [used EXCEPT ![c] = used[c] \cup {t.i}]
                /\ merging' = [merging EXCEPT ![c] = f]
                /\ cat_pc' = [cat_pc EXCEPT ![c] = "merge"]
  /\ UNCHANGED <<all_category_products, threshold, normalized_titles, groups,
                 batch_no, grouper_pc>>

\* used.update(local_used); groups.append(group)
MergeResult(c) ==
  /\ grouper_pc = "running"
  /\ cat_pc[c] = "merge"
  /\ LET t == futures[c][merging[c]]
     IN  /\ used' = [used EXCEPT ![c] = used[c] \cup t.local_used]
         /\ groups' = [groups EXCEPT ![c] = Append(groups[c], t.group)]
  /\ cat_pc' = [cat_pc EXCEPT ![c] = "collect"]
  /\ merging' = [merging EXCEPT ![c] = 0]
  /\ UNCHANGED <<all_category_products, threshold, normalized_titles, futures,
                 batch_no, grouper_pc>>

\* Every future of the batch has been taken: the next batch is submitted,
\* or process_category returns its groups.
FinishBatch(c) ==
  /\ grouper_pc = "running"
  /\ cat_pc[c] = "collect"
  /\ \A f \in 1..Len(futures[c]) : futures[c][f].consumed
  /\ IF batch_no[c] < batch_count(products_of(c))
     THEN /\ batch_no' = [batch_no EXCEPT ![c] = batch_no[c] + 1]
          /\ futures' = [futures EXCEPT ![c] =
               submit_batch(products_of(c), batch_no[c] + 1, used[c])]
          /\ UNCHANGED cat_pc
     ELSE /\ cat_pc' = [cat_pc EXCEPT ![c] = "done"]
          /\ UNCHANGED <<batch_no, futures>>
  /\ UNCHANGED <<all_category_products, threshold, normalized_titles, used, groups,
                 merging, grouper_pc>>

(***************************************************************************)
(* The registries and the three tables                                     *)
(***************************************************************************)
VARIABLES
  vape_company,              \* the brand registry: a sequence of [id, name]
  brand_cache,               \* _brand_cache: <<>> for None, else <<the rows>>
  vape_products,             \* the products table, in insertion order
  vape_price_comparisons,    \* the price-comparison table, in insertion order
  vape_price_history,        \* the price-history table, in insertion order
  run_pc,                    \* where the reconciliation run stands
  run_no,                    \* the number of runs started
  exit_status,               \* the exit status of the last run that ended
  final_grouped_products,    \* the groups the grouper returned
  gi,                        \* the position of the group in work
  mi,                        \* the position of the listing in work
  group_key,                 \* visible name, company, category, grouping name
  grouping_product_id,       \* 0 for None
  existing_price,            \* the row fetch_one returned, <<>> for None
  old_lowest_price,          \* the minimum price read before the update
  new_lowest_price,          \* the minimum price read after the update
  pre,                       \* the tables as they were when the run, the group
                             \* and the listing in work were begun
  error_log                  \* what this run has logged of errors and warnings, by kind

\* A call of one of the pure functions on its own.
VARIABLES
  fn_call                    \* [fn, args, result]

\* VapeRunner, which runs the crawler and VapeSort in cycles.
VARIABLES
  runner_pc,                 \* where VapeRunner stands
  interval,                  \* whether --interval was given
  cycle,                     \* the number of the cycles begun
  results,                   \* the .json files of results/: [site, cycle]
  crawler_success,           \* what run_vape_crawler returned in this cycle
  sort_success,              \* what run_vape_sort returned in this cycle
  sort_loaded                \* the files VapeSort listed in this cycle

nvars == <<runner_pc, interval, cycle, results, crawler_success, sort_success,
           sort_loaded>>

\* VapeRunner is not running.
runner_off ==
  /\ runner_pc = "off"
  /\ interval = FALSE
  /\ cycle = 0
  /\ results = {}
  /\ crawler_success = FALSE
  /\ sort_success = FALSE
  /\ sort_loaded = {}

cvars == <<fn_call, nvars>>

NoCall == [fn |-> "none", args |-> <<>>, result |-> <<>>]

rvars == <<vape_company, brand_cache, vape_products, vape_price_comparisons,
           vape_price_history, run_pc, run_no, exit_status,
           final_grouped_products, gi, mi, group_key, grouping_product_id,
           existing_price, old_lowest_price, new_lowest_price, pre, error_log>>

vars == <<gvars, rvars, cvars>>

brand_vip == <<"V","I","P">>

brand_vip_juice == <<"V","I","P","k_ju","k_seu">>

brand_nasty == <<"k_ne","k_seu","k_ti">>

\* The rows of vapesite.vape_company; id 1 is the unknown brand.
BrandRows ==
  { [id |-> 2, name |-> brand_vip], [id |-> 3, name |-> brand_vip_juice],
    [id |-> 4, name |-> brand_nasty] }

\* vapesite.vape_seller_site, by name (the source_file of a listing).
seller_site_list ==
  [juiceshop |-> [id |-> 2, name |-> "juiceshop"],
   vapemonster |-> [id |-> 3, name |-> "vapemonster"]]

\* vapesite.vape_product_category, by name (the product_type of a listing).
product_category_list ==
  [iphoheup |-> [id |-> 1, name |-> "iphoheup"],
   pyehoheup |-> [id |-> 2, name |-> "pyehoheup"]]

\* dict.get with a default, for the fields a record may lack.
get_title(product) == IF "title" \in DOMAIN product THEN product.title ELSE <<>>

get_url(product) == IF "url" \in DOMAIN product THEN product.url ELSE ""

get_price(product) == IF "price" \in DOMAIN product THEN product.price ELSE 0

get_image_url(product) ==
  IF "image_url" \in DOMAIN product THEN product.image_url ELSE ""

get_source_file(product) ==
  IF "source_file" \in DOMAIN product THEN product.source_file ELSE ""

\* seller_site_list.get(source_file, {}).get('id', 1)
seller_site_id_of(product) ==
  IF get_source_file(product) \in DOMAIN seller_site_list
  THEN seller_site_list[get_source_file(product)].id
  ELSE 1

(***************************************************************************)
(* get_company_id_from_title                                               *)
(***************************************************************************)
\* brand_name.lower() in normalized_title
brand_matches(brand_name, normalized_title) ==
  Contains(normalized_title, Lower(brand_name))

\* The id of the first brand whose name matches; 0 when none does.
first_matching_brand_or_none(known_brands, normalized_title) ==
  IF \E k \in 1..Len(known_brands) : brand_matches(known_brands[k].name, normalized_title)
  THEN known_brands[CHOOSE k \in 1..Len(known_brands) :
         /\ brand_matches(known_brands[k].name, normalized_title)
         /\ \A m \in 1..(k - 1) : ~brand_matches(known_brands[m].name, normalized_title)].id
  ELSE 0

\* The id of the first brand, in the order of the registry rows, whose
\* name matches; 1 when none does.
first_matching_brand(known_brands, normalized_title) ==
  IF \E k \in 1..Len(known_brands) : brand_matches(known_brands[k].name, normalized_title)
  THEN known_brands[CHOOSE k \in 1..Len(known_brands) :
         /\ brand_matches(known_brands[k].name, normalized_title)
         /\ \A m \in 1..(k - 1) : ~brand_matches(known_brands[m].name, normalized_title)].id
  ELSE 1

get_company_id_from_title(title, known_brands) ==
  first_matching_brand(known_brands, normalize_title_text(title))

(***************************************************************************)
(* The queries and the rows of the reconciler                              *)
(***************************************************************************)
Rows(table) == {table[k] : k \in 1..Len(table)}

\* LAST_INSERT_ID() of an auto-increment table that loses no row.
next_id(table) == Len(table) + 1

\* SELECT productId, sellerId FROM vape_price_comparisons
\* WHERE sellerUrl = %s LIMIT 1 : any one of these rows.
comparisons_by_url(comparisons, seller_url) ==
  {r \in Rows(comparisons) : r.sellerUrl = seller_url}

\* SELECT ... FROM vape_products WHERE id = %s
products_by_id(products, id) == {r \in Rows(products) : r.id = id}

\* A lookup by the triple that finds no row.
products_by_no_key(products, company_id, grouping_name, category_id) == {}

\* SELECT ... FROM vape_products WHERE companyId = %s
\* AND productGroupingName = %s AND productCategoryId = %s
products_by_key(products, company_id, grouping_name, category_id) ==
  {r \in Rows(products) : /\ r.companyId = company_id
                          /\ r.productGroupingName = grouping_name
                          /\ r.productCategoryId = category_id}

\* A lookup of the price-comparison row that finds no row.
comparisons_by_no_key(comparisons, product_id, seller_url, seller_id) == {}

\* SELECT id, price FROM vape_price_comparisons
\* WHERE productId = %s AND sellerUrl = %s AND sellerId = %s LIMIT 1
comparisons_by_key(comparisons, product_id, seller_url, seller_id) ==
  {r \in Rows(comparisons) : /\ r.productId = product_id
                             /\ r.sellerUrl = seller_url
                             /\ r.sellerId = seller_id}

\* SELECT price FROM vape_price_comparisons WHERE productId = %s
\* ORDER BY price ASC LIMIT 1 : <<>> when the product has no row.
lowest_price(comparisons, product_id) ==
  LET prices == {r.price : r \in {q \in Rows(comparisons) : q.productId = product_id}}
  IN  IF prices = {} THEN <<>>
      ELSE <<CHOOSE p \in prices : \A q \in prices : p <= q>>

\* image_url of the first member, else the first non-empty one of the group.
group_image_url(products_in_group) ==
  IF get_image_url(products_in_group[1]) # "" THEN get_image_url(products_in_group[1])
  ELSE IF \E k \in 1..Len(products_in_group) : get_image_url(products_in_group[k]) # ""
  THEN get_image_url(products_in_group[CHOOSE k \in 1..Len(products_in_group) :
         /\ get_image_url(products_in_group[k]) # ""
         /\ \A m \in 1..(k - 1) : get_image_url(products_in_group[m]) = ""])
  ELSE ""

\* product_data, with the id the insert gives it.
product_data(id, key, image_url) ==
  [id |-> id, companyId |-> key.company_id,
   productCategoryId |-> key.product_category_id,
   visibleName |-> key.visible_product_name,
   productGroupingName |-> key.normalize_product_grouping_name,
   imageUrl |-> image_url]

\* price_comparison_data, with the id the insert gives it.
price_comparison_data(id, product_id, product) ==
  [id |-> id, productId |-> product_id, sellerId |-> seller_site_id_of(product),
   sellerUrl |-> get_url(product), price |-> get_price(product),
   originTitle |-> get_title(product)]

\* if old_price != new_price
price_differs(old_price, new_price) == old_price # new_price

\* A test of the two minima that leaves out their comparison.
lowest_both_known(old_lowest, new_lowest) ==
  Len(old_lowest) > 0 /\ Len(new_lowest) > 0

\* if old_lowest_price and new_lowest_price and
\*    old_lowest_price['price'] != new_lowest_price['price']
lowest_changed(old_lowest, new_lowest) ==
  Len(old_lowest) > 0 /\ Len(new_lowest) > 0 /\ old_lowest[1] # new_lowest[1]

\* (new - old) / old * 100, as a fraction, whatever old is.
percentage_change_unguarded(old, new) == <<(new - old) * 100, old>>

\* (new - old) / old * 100 if old else 0, as a fraction.
percentage_change(old, new) ==
  IF old # 0 THEN <<(new - old) * 100, old>> ELSE <<0, 1>>

\* A row of a changed minimum with the prices the other way round.
price_history_data_swapped(product_id, seller_id, old, new) ==
  [productId |-> product_id, sellerId |-> seller_id, oldPrice |-> new,
   newPrice |-> old, priceDifference |-> old - new,
   percentageChange |-> percentage_change(new, old)]

\* price_history_data of a changed minimum.
price_history_data(product_id, seller_id, old, new) ==
  [productId |-> product_id, sellerId |-> seller_id, oldPrice |-> old,
   newPrice |-> new, priceDifference |-> new - old,
   percentageChange |-> percentage_change(old, new)]

\* A row of a first observation with the price as its oldPrice.
first_price_history_data_from_price(product_id, seller_id, new_price) ==
  [productId |-> product_id, sellerId |-> seller_id, oldPrice |-> new_price,
   newPrice |-> new_price]

\* price_history_data of a first observation.
first_price_history_data(product_id, seller_id, new_price) ==
  [productId |-> product_id, sellerId |-> seller_id, oldPrice |-> 0,
   newPrice |-> new_price]

\* An insert that replaces the latest row of the same product and seller.
upsert_history_row(history, row) ==
  IF \E k \in 1..Len(history) :
       history[k].productId = row.productId /\ history[k].sellerId = row.sellerId
  THEN [k \in 1..Len(history) |->
          IF /\ history[k].productId = row.productId
             /\ history[k].sellerId = row.sellerId
             /\ \A m \in (k + 1)..Len(history) :
                  ~(history[m].productId = row.productId
                      /\ history[m].sellerId = row.sellerId)
          THEN row ELSE history[k]]
  ELSE Append(history, row)

\* _db.insert_data('vapesite.vape_price_history', price_history_data)
insert_history_row(history, row) == Append(history, row)

\* UPDATE vape_price_comparisons SET price, sellerUrl, originTitle WHERE id
update_price_row(comparisons, id, product) ==
  [k \in 1..Len(comparisons) |->
     IF comparisons[k].id = id
     THEN [comparisons[k] EXCEPT !.price = get_price(product),
                                 !.sellerUrl = get_url(product),
                                 !.originTitle = get_title(product)]
     ELSE comparisons[k]]

\* An UPDATE of originTitle without its WHERE.
update_title_of_every_row(comparisons, id, product) ==
  [k \in 1..Len(comparisons) |->
     [comparisons[k] EXCEPT !.originTitle = get_title(product)]]

\* UPDATE vape_price_comparisons SET originTitle WHERE id
update_title_row(comparisons, id, product) ==
  [k \in 1..Len(comparisons) |->
     IF comparisons[k].id = id
     THEN [comparisons[k] EXCEPT !.originTitle = get_title(product)]
     ELSE comparisons[k]]

(***************************************************************************)
(* The reconciliation run (__main__)                                       *)
(***************************************************************************)
products_in_group == final_grouped_products[gi]

product_in_work == products_in_group[mi]

NoKey == [visible_product_name |-> <<>>, company_id |-> 0,
          product_category_id |-> 0, normalize_product_grouping_name |-> <<>>]

NoPre == [products |-> <<>>, comparisons |-> <<>>, history |-> <<>>]

\* The listing in work is finished: the next listing, the next group, or
\* the end of the run.
advance ==
  IF mi < Len(products_in_group)
  THEN /\ mi' = mi + 1
       /\ run_pc' = "lookup_price"
       /\ UNCHANGED <<gi, exit_status>>
  ELSE IF gi < Len(final_grouped_products)
  THEN /\ gi' = gi + 1
       /\ mi' = 1
       /\ run_pc' = "begin_group"
       /\ UNCHANGED exit_status
  ELSE /\ gi' = 0
       /\ mi' = 0
       /\ run_pc' = "ended"
       /\ exit_status' = 0

\* Lines 406-412: the visible name, the brand (the registry is fetched and
\* cached by the first call, and a registry without rows ends the run with
\* exit(1)), the category and the grouping name; the unknown brand is
\* logged as a warning.
BeginGroup ==
  /\ run_pc = "begin_group"
  /\ IF Len(brand_cache) = 0 /\ Len(vape_company) = 0
     THEN /\ error_log' = Append(error_log, "no_brands")
          /\ run_pc' = "ended"
          /\ exit_status' = 1
          /\ UNCHANGED <<brand_cache, group_key, grouping_product_id, mi, pre>>
     ELSE /\ LET known_brands ==
                   IF Len(brand_cache) = 0 THEN vape_company ELSE brand_cache[1]
                 first == products_in_group[1]
                 visible_product_name == normalize_title_text(get_title(first))
                 company_id ==
                   get_company_id_from_title(visible_product_name, known_brands)
             IN  /\ brand_cache' = <<known_brands>>
                 /\ error_log' = IF company_id = 1
                                 THEN Append(error_log, "unknown_company")
                                 ELSE error_log
                 /\ group_key' =
                      [visible_product_name |-> visible_product_name,
                       company_id |-> company_id,
                       product_category_id |->
                         product_category_list[first.product_type].id,
                       normalize_product_grouping_name |->
                         normalize_product_grouping_key(visible_product_name)]
          /\ grouping_product_id' = 0
          /\ mi' = 1
          /\ pre' = [pre EXCEPT !.products = vape_products]
          /\ run_pc' = "lookup_url"
          /\ UNCHANGED exit_status
  /\ UNCHANGED <<gvars, cvars, vape_company, vape_products, vape_price_comparisons,
                 vape_price_history, run_no, final_grouped_products, gi,
                 existing_price, old_lowest_price, new_lowest_price>>

\* Lines 417-424, one turn: the url of member mi is looked up; the first
\* url that has a row decides the product id and ends the loop.
LookupUrl ==
  /\ run_pc = "lookup_url"
  /\ LET found == comparisons_by_url(vape_price_comparisons, get_url(product_in_work))
     IN  IF found # {}
         THEN /\ \E existing_product \in found :
                   grouping_product_id' = existing_product.productId
              /\ run_pc' = "lookup_product"
              /\ mi' = 1
         ELSE /\ UNCHANGED grouping_product_id
              /\ IF mi < Len(products_in_group)
                 THEN mi' = mi + 1 /\ UNCHANGED run_pc
                 ELSE mi' = 1 /\ run_pc' = "lookup_product"
  /\ UNCHANGED <<gvars, cvars, error_log, vape_company,
                 brand_cache, vape_products,
                 vape_price_comparisons, vape_price_history, run_no, exit_status,
                 final_grouped_products, gi, group_key, existing_price,
                 old_lowest_price, new_lowest_price, pre>>

\* An identity lookup that reads by the triple whatever the urls gave.
identity_rows_by_key(products, product_id, key) ==
  products_by_key(products, key.company_id,
                  key.normalize_product_grouping_name, key.product_category_id)

\* The products row the identity lookup of lines 426-431 reads: by id when
\* a url decided the id, else by the triple.
identity_rows(products, product_id, key) ==
  IF product_id # 0
  THEN products_by_id(products, product_id)
  ELSE products_by_key(products, key.company_id,
                       key.normalize_product_grouping_name, key.product_category_id)

\* Lines 426-437: the products row is read; a row found gives the id.
LookupProduct ==
  /\ run_pc = "lookup_product"
  /\ LET found == identity_rows(vape_products, grouping_product_id, group_key)
     IN  IF found # {}
         THEN /\ \E product \in found : grouping_product_id' = product.id
              /\ run_pc' = "lookup_price"
         ELSE /\ UNCHANGED grouping_product_id
              /\ run_pc' = "insert_product"
  /\ UNCHANGED <<gvars, cvars, error_log, vape_company,
                 brand_cache, vape_products,
                 vape_price_comparisons, vape_price_history, run_no, exit_status,
                 final_grouped_products, gi, mi, group_key, existing_price,
                 old_lowest_price, new_lowest_price, pre>>

\* Lines 439-458: a new products row.
InsertProduct ==
  /\ run_pc = "insert_product"
  /\ vape_products' = Append(vape_products,
       product_data(next_id(vape_products), group_key,
                    group_image_url(products_in_group)))
  /\ grouping_product_id' = next_id(vape_products)
  /\ run_pc' = "lookup_price"
  /\ UNCHANGED <<gvars, cvars, error_log, vape_company,
                 brand_cache, vape_price_comparisons,
                 vape_price_history, run_no, exit_status, final_grouped_products,
                 gi, mi, group_key, existing_price, old_lowest_price,
                 new_lowest_price, pre>>

\* Lines 475-503: the row of (productId, sellerUrl, sellerId) is read and
\* decides the branch; a listing without a seller id is passed over.
LookupPrice ==
  /\ run_pc = "lookup_price"
  /\ pre' = [products |-> vape_products, comparisons |-> vape_price_comparisons,
             history |-> vape_price_history]
  /\ IF seller_site_id_of(product_in_work) = 0
     THEN /\ error_log' = Append(error_log, "no_seller")
          /\ advance
          /\ UNCHANGED existing_price
     ELSE LET found == comparisons_by_key(vape_price_comparisons, grouping_product_id,
                         get_url(product_in_work), seller_site_id_of(product_in_work))
          IN  IF found # {}
              THEN /\ \E row \in found : existing_price' = <<row>>
                   /\ run_pc' = "branch_price"
                   /\ UNCHANGED <<gi, mi, exit_status, error_log>>
              ELSE /\ existing_price' = <<>>
                   /\ run_pc' = "insert_comparison"
                   /\ UNCHANGED <<gi, mi, exit_status, error_log>>
  /\ UNCHANGED <<gvars, cvars, vape_company, brand_cache, vape_products,
                 vape_price_comparisons, vape_price_history, run_no,
                 final_grouped_products, group_key, grouping_product_id,
                 old_lowest_price, new_lowest_price>>

\* Lines 503-507: with a changed price, the minimum price of the product is
\* read before the update.
ReadOldLowest ==
  /\ run_pc = "branch_price"
  /\ price_differs(existing_price[1].price, get_price(product_in_work))
  /\ old_lowest_price' = lowest_price(vape_price_comparisons, grouping_product_id)
  /\ run_pc' = "update_price"
  /\ UNCHANGED <<gvars, cvars, error_log, vape_company,
                 brand_cache, vape_products,
                 vape_price_comparisons, vape_price_history, run_no, exit_status,
                 final_grouped_products, gi, mi, group_key, grouping_product_id,
                 existing_price, new_lowest_price, pre>>

\* Lines 510-515: the row is updated in place.
UpdatePrice ==
  /\ run_pc = "update_price"
  /\ vape_price_comparisons' =
       update_price_row(vape_price_comparisons, existing_price[1].id, product_in_work)
  /\ run_pc' = "read_new_lowest"
  /\ UNCHANGED <<gvars, cvars, error_log, vape_company,
                 brand_cache, vape_products,
                 vape_price_history, run_no, exit_status, final_grouped_products,
                 gi, mi, group_key, grouping_product_id, existing_price,
                 old_lowest_price, new_lowest_price, pre>>

\* Line 518: the minimum price of the product is read after the update.
ReadNewLowest ==
  /\ run_pc = "read_new_lowest"
  /\ new_lowest_price' = lowest_price(vape_price_comparisons, grouping_product_id)
  /\ run_pc' = "record_history"
  /\ UNCHANGED <<gvars, cvars, error_log, vape_company,
                 brand_cache, vape_products,
                 vape_price_comparisons, vape_price_history, run_no, exit_status,
                 final_grouped_products, gi, mi, group_key, grouping_product_id,
                 existing_price, old_lowest_price, pre>>

\* Lines 521-533: a history row when the minimum changed.
RecordHistory ==
  /\ run_pc = "record_history"
  /\ IF lowest_changed(old_lowest_price, new_lowest_price)
     THEN vape_price_history' = insert_history_row(vape_price_history,
            price_history_data(grouping_product_id, seller_site_id_of(product_in_work),
                               old_lowest_price[1], new_lowest_price[1]))
     ELSE UNCHANGED vape_price_history
  /\ advance
  /\ UNCHANGED <<gvars, cvars, error_log, vape_company,
                 brand_cache, vape_products,
                 vape_price_comparisons, run_no, final_grouped_products, group_key,
                 grouping_product_id, existing_price, old_lowest_price,
                 new_lowest_price, pre>>

\* Lines 534-540: with the same price, the title alone is updated.
UpdateTitle ==
  /\ run_pc = "branch_price"
  /\ ~price_differs(existing_price[1].price, get_price(product_in_work))
  /\ vape_price_comparisons' =
       update_title_row(vape_price_comparisons, existing_price[1].id, product_in_work)
  /\ advance
  /\ UNCHANGED <<gvars, cvars, error_log, vape_company,
                 brand_cache, vape_products,
                 vape_price_history, run_no, final_grouped_products, group_key,
                 grouping_product_id, existing_price, old_lowest_price,
                 new_lowest_price, pre>>

\* Line 543: a new price-comparison row.
InsertComparison ==
  /\ run_pc = "insert_comparison"
  /\ vape_price_comparisons' = Append(vape_price_comparisons,
       price_comparison_data(next_id(vape_price_comparisons), grouping_product_id,
                             product_in_work))
  /\ run_pc' = "insert_history"
  /\ UNCHANGED <<gvars, cvars, error_log, vape_company,
                 brand_cache, vape_products,
                 vape_price_history, run_no, exit_status, final_grouped_products,
                 gi, mi, group_key, grouping_product_id, existing_price,
                 old_lowest_price, new_lowest_price, pre>>

\* Lines 545-551: the history row of the first observation.
InsertFirstHistory ==
  /\ run_pc = "insert_history"
  /\ vape_price_history' = insert_history_row(vape_price_history,
       first_price_history_data(grouping_product_id,
                                seller_site_id_of(product_in_work),
                                get_price(product_in_work)))
  /\ advance
  /\ UNCHANGED <<gvars, cvars, error_log, vape_company,
                 brand_cache, vape_products,
                 vape_price_comparisons, run_no, final_grouped_products, group_key,
                 grouping_product_id, existing_price, old_lowest_price,
                 new_lowest_price, pre>>

(***************************************************************************)
(* The inputs                                                              *)
(***************************************************************************)
\* The most runs of VapeSort, one after another.
MaxRuns == 2

\* The most listings of one call of the grouper on its own.
MaxGroupListings == 2

Scraped(title, price, url, image_url, source_file) ==
  [title |-> title, price |-> price, url |-> url, image_url |-> image_url,
   source_file |-> source_file]

\* What the crawler of juiceshop may report of its listing at url_a, and the
\* crawler of vapemonster of its listing at url_b: the title and the price
\* of a listing change from run to run, its url does not.
ListingsAtA ==
  { Scraped(t, p, "url_a", "img_a", "juiceshop") :
      t \in {title_nasty_en, title_lemon}, p \in {1000, 900} }

ListingsAtB ==
  { Scraped(title_nasty_ko, p, "url_b", "", "vapemonster") : p \in {1200, 1100} }

\* The records of one run: of each crawler at most one, in either order.
RunRecords ==
  { <<a>> : a \in ListingsAtA } \cup { <<b>> : b \in ListingsAtB }
  \cup { <<a, b>> : a \in ListingsAtA, b \in ListingsAtB }
  \cup { <<b, a>> : a \in ListingsAtA, b \in ListingsAtB }

\* The listings of the calls of the grouper on its own.
GroupPool ==
  { Scraped(title_nasty_en, 1000, "url_a", "img_a", "juiceshop"),
    Scraped(title_nasty_ko, 1200, "url_b", "", "vapemonster"),
    Scraped(title_lemon, 1000, "url_c", "", "juiceshop"),
    Scraped(title_melon, 1000, "url_d", "", "vapemonster"),
    Scraped(title_lemur, 1000, "url_e", "", "juiceshop"),
    Scraped(title_volume, 1000, "url_f", "", "juiceshop") }

\* load_and_integrate_products: product['product_type'] = product_type
with_type(product, product_type) ==
  [field \in DOMAIN product \cup {"product_type"} |->
     IF field = "product_type" THEN product_type ELSE product[field]]

\* The mapping that holds the first k records of ls under the first
\* category and the others under the second; a category is a key of the
\* mapping only when a record was loaded for it, or when extra says so.
loaded_mapping(ls, k, extra) ==
  LET first == [category |-> Categories[1],
                products |-> [m \in 1..k |-> with_type(ls[m], Categories[1])]]
      second == [category |-> Categories[2],
                 products |-> [m \in 1..(Len(ls) - k) |->
                                 with_type(ls[k + m], Categories[2])]]
  IN  (IF k > 0 THEN <<first>> ELSE <<>>)
      \o (IF k < Len(ls) \/ extra THEN <<second>> ELSE <<>>)

\* The mappings load_and_integrate_products can return for at most n
\* records of pool.
LoadedMappings(pool, n) ==
  UNION { { loaded_mapping(ls, k, FALSE) : k \in 0..Len(ls) } :
            ls \in UNION {[1..m -> pool] : m \in 1..n} }

\* The mappings the grouper can be called with: also with a category that
\* holds no record.
GrouperMappings(pool, n) ==
  LoadedMappings(pool, n)
  \cup { loaded_mapping(ls, Len(ls), TRUE) :
           ls \in UNION {[1..m -> pool] : m \in 0..(n - 1)} }

(***************************************************************************)
(* The call of the grouper and the run around it                           *)
(***************************************************************************)
\* The state of a call of group_products_by_similarity on mapping.
grouper_called(mapping, thr) ==
  /\ all_category_products = mapping
  /\ threshold = thr
  /\ normalized_titles = [c \in 1..Len(mapping) |-> <<>>]
  /\ used = [c \in 1..Len(mapping) |-> {}]
  /\ groups = [c \in 1..Len(mapping) |-> <<>>]
  /\ futures = [c \in 1..Len(mapping) |-> <<>>]
  /\ cat_pc = [c \in 1..Len(mapping) |-> "start"]
  /\ batch_no = [c \in 1..Len(mapping) |-> 0]
  /\ merging = [c \in 1..Len(mapping) |-> 0]
  /\ grouper_pc = "running"

\* The groups of category c, their positions taken in the list of the first
\* category.
groups_of_first_list(c) ==
  [g \in 1..Len(groups[c]) |->
     [m \in 1..Len(groups[c][g]) |-> products_of(1)[groups[c][g][m]]]]

\* The groups of category c, as the records the positions stand for.
groups_of(c) ==
  [g \in 1..Len(groups[c]) |->
     [m \in 1..Len(groups[c][g]) |-> products_of(c)[groups[c][g][m]]]]

\* all_groups.extend(group_list), in the order of the categories.
RECURSIVE all_groups(_)
all_groups(c) ==
  IF c > Len(all_category_products) THEN <<>>
  ELSE groups_of(c) \o all_groups(c + 1)

\* Lines 364-399: a run of VapeSort starts: the result files are loaded and
\* the grouper is called with the production threshold.
StartRunOn(records) ==
  /\ run_pc = "idle"
  /\ run_no < MaxRuns
  /\ run_no' = run_no + 1
  /\ run_pc' = "grouping"
  /\ brand_cache' = <<>>
  /\ \E mapping \in { loaded_mapping(ls, Len(ls), FALSE) : ls \in records } :
       /\ all_category_products' = mapping
       /\ threshold' = production_threshold
       /\ normalized_titles' = [c \in 1..Len(mapping) |-> <<>>]
       /\ used' = [c \in 1..Len(mapping) |-> {}]
       /\ groups' = [c \in 1..Len(mapping) |-> <<>>]
       /\ futures' = [c \in 1..Len(mapping) |-> <<>>]
       /\ cat_pc' = [c \in 1..Len(mapping) |-> "start"]
       /\ batch_no' = [c \in 1..Len(mapping) |-> 0]
       /\ merging' = [c \in 1..Len(mapping) |-> 0]
  /\ grouper_pc' = "running"
  /\ final_grouped_products' = <<>>
  /\ gi' = 0
  /\ mi' = 0
  /\ group_key' = NoKey
  /\ grouping_product_id' = 0
  /\ existing_price' = <<>>
  /\ old_lowest_price' = <<>>
  /\ new_lowest_price' = <<>>
  /\ pre' = [products |-> vape_products, comparisons |-> vape_price_comparisons,
             history |-> vape_price_history]
  /\ error_log' = <<>>
  /\ UNCHANGED <<cvars, vape_company, vape_products, vape_price_comparisons,
                 vape_price_history, exit_status>>

StartRun == StartRunOn(RunRecords)

\* Lines 309-315 and 399-403: every category has ended and every pool thread
\* is through.  An exception of a category leaves the grouper, and a run
\* around it ends with a traceback; else the groups are returned, and a run
\* goes on to its first group.
FinishGrouping ==
  /\ grouper_pc = "running"
  /\ \A c \in CatIds : cat_pc[c] \in {"done", "raised"}
  /\ \A c \in CatIds : \A f \in 1..Len(futures[c]) : futures[c][f].st = "done"
  /\ IF \E c \in CatIds : cat_pc[c] = "raised"
     THEN /\ grouper_pc' = "raised"
          /\ UNCHANGED final_grouped_products
          /\ IF run_pc = "grouping"
             THEN run_pc' = "ended" /\ exit_status' = 1 /\ UNCHANGED gi
             ELSE UNCHANGED <<run_pc, exit_status, gi>>
     ELSE /\ grouper_pc' = "returned"
          /\ final_grouped_products' = all_groups(1)
          /\ IF run_pc = "grouping"
             THEN IF Len(all_groups(1)) > 0
                  THEN run_pc' = "begin_group" /\ gi' = 1 /\ UNCHANGED exit_status
                  ELSE run_pc' = "ended" /\ exit_status' = 0 /\ UNCHANGED gi
             ELSE UNCHANGED <<run_pc, exit_status, gi>>
  /\ UNCHANGED <<all_category_products, threshold, normalized_titles, used, groups,
                 futures, cat_pc, batch_no, merging, cvars, error_log, vape_company,
                 brand_cache,
                 vape_products, vape_price_comparisons, vape_price_history, run_no,
                 mi, group_key, grouping_product_id, existing_price,
                 old_lowest_price, new_lowest_price, pre>>

\* The process ends: what it held in memory is gone, the tables and the
\* exit status remain.
ExitProcess ==
  /\ run_pc = "ended"
  /\ run_pc' = "idle"
  /\ all_category_products' = <<>>
  /\ threshold' = production_threshold
  /\ normalized_titles' = <<>>
  /\ used' = <<>>
  /\ groups' = <<>>
  /\ futures' = <<>>
  /\ cat_pc' = <<>>
  /\ batch_no' = <<>>
  /\ merging' = <<>>
  /\ grouper_pc' = "idle"
  /\ brand_cache' = <<>>
  /\ final_grouped_products' = <<>>
  /\ gi' = 0
  /\ mi' = 0
  /\ group_key' = NoKey
  /\ grouping_product_id' = 0
  /\ existing_price' = <<>>
  /\ old_lowest_price' = <<>>
  /\ new_lowest_price' = <<>>
  /\ pre' = NoPre
  /\ error_log' = <<>>
  /\ UNCHANGED <<cvars, vape_company, vape_products, vape_price_comparisons,
                 vape_price_history, run_no, exit_status>>

(***************************************************************************)
(* Specifications                                                          *)
(***************************************************************************)
\* The brand registry in the order of its ids.
registry_by_id ==
  << [id |-> 2, name |-> brand_vip], [id |-> 3, name |-> brand_vip_juice],
     [id |-> 4, name |-> brand_nasty] >>

\* No run has started, the tables are empty.
run_idle ==
  /\ vape_company = registry_by_id
  /\ brand_cache = <<>>
  /\ vape_products = <<>>
  /\ vape_price_comparisons = <<>>
  /\ vape_price_history = <<>>
  /\ run_pc = "idle"
  /\ run_no = 0
  /\ exit_status = 0
  /\ final_grouped_products = <<>>
  /\ gi = 0
  /\ mi = 0
  /\ group_key = NoKey
  /\ grouping_product_id = 0
  /\ existing_price = <<>>
  /\ old_lowest_price = <<>>
  /\ new_lowest_price = <<>>
  /\ pre = NoPre
  /\ error_log = <<>>

\* The steps of the grouper; they leave the tables and the run alone.
Grouping ==
  \/ \E c \in CatIds : StartCategory(c) /\ UNCHANGED <<rvars, cvars>>
  \/ \E c \in CatIds : \E f \in 1..Len(futures[c]) :
       StartProduct(c, f) /\ UNCHANGED <<rvars, cvars>>
  \/ \E c \in CatIds : \E f \in 1..Len(futures[c]) :
       ScanCandidate(c, f) /\ UNCHANGED <<rvars, cvars>>
  \/ \E c \in CatIds : \E f \in 1..Len(futures[c]) :
       TakeResult(c, f) /\ UNCHANGED <<rvars, cvars>>
  \/ \E c \in CatIds : MergeResult(c) /\ UNCHANGED <<rvars, cvars>>
  \/ \E c \in CatIds : FinishBatch(c) /\ UNCHANGED <<rvars, cvars>>
  \/ FinishGrouping

Reconciling ==
  \/ BeginGroup
  \/ LookupUrl
  \/ LookupProduct
  \/ InsertProduct
  \/ LookupPrice
  \/ ReadOldLowest
  \/ UpdatePrice
  \/ ReadNewLowest
  \/ RecordHistory
  \/ UpdateTitle
  \/ InsertComparison
  \/ InsertFirstHistory

\* The runs of VapeSort, one after another, on the tables they share.
Init ==
  /\ run_idle
  /\ all_category_products = <<>>
  /\ threshold = production_threshold
  /\ normalized_titles = <<>>
  /\ used = <<>>
  /\ groups = <<>>
  /\ futures = <<>>
  /\ cat_pc = <<>>
  /\ batch_no = <<>>
  /\ merging = <<>>
  /\ grouper_pc = "idle"
  /\ fn_call = NoCall
  /\ runner_off

Next == StartRun \/ Grouping \/ Reconciling \/ ExitProcess

Spec == Init /\ [][Next]_vars

\* One call of group_products_by_similarity, for any mapping and threshold.
InitGroup ==
  /\ run_idle
  /\ fn_call = NoCall
  /\ runner_off
  /\ \E mapping \in GrouperMappings(GroupPool, MaxGroupListings) :
       \E thr \in Thresholds : grouper_called(mapping, thr)

NextGroup == Grouping

SpecGroup == InitGroup /\ [][NextGroup]_vars

(***************************************************************************)
(* The properties of the grouper                                           *)
(***************************************************************************)
\* The positions a group holds.
Members(group) == {group[m] : m \in 1..Len(group)}

\* The finished tasks of category c that returned a group.
GroupTasks(c) ==
  {f \in 1..Len(futures[c]) :
     futures[c][f].st = "done" /\ futures[c][f].result = "tuple"}

\* Whether the similarity of two normalized titles reaches thr.
SimilarAt(title_i, title_j, thr) ==
  FracGE(compute_levenshtein_similarity(title_i, title_j), thr)

\* C1: under every interleaving of the worker threads of a category with
\* the main thread that merges their results into used, no listing of the
\* category is in more than one returned group, and none is twice in one.
C1_NoListingInTwoGroups ==
  grouper_pc = "returned" =>
    \A c \in CatIds :
      \A g1, g2 \in 1..Len(groups[c]) :
        \A m1 \in 1..Len(groups[c][g1]) : \A m2 \in 1..Len(groups[c][g2]) :
          groups[c][g1][m1] = groups[c][g2][m2] => (g1 = g2 /\ m1 = m2)

\* C2: whenever the grouper returns, every listing of every category is in
\* at least one returned group, and a listing whose title is similar to no
\* other title of its category is a group of its own.
C2_EveryListingGrouped ==
  grouper_pc = "returned" =>
    \A c \in CatIds : \A k \in 1..Len(products_of(c)) :
      /\ \E g \in 1..Len(groups[c]) : k \in Members(groups[c][g])
      /\ (\A j \in 1..Len(products_of(c)) :
            j # k => ~SimilarAt(normalized_titles[c][k], normalized_titles[c][j],
                                threshold))
           => \E g \in 1..Len(groups[c]) : groups[c][g] = <<k>>

\* The grouper has returned a category of two listings as two groups of
\* one listing each.
C2_Witness ==
  /\ grouper_pc = "returned"
  /\ \E c \in CatIds :
       /\ Len(products_of(c)) = 2
       /\ products_of(c)[1] # products_of(c)[2]
       /\ Len(groups[c]) = 2
       /\ Members(groups[c][1]) \cup Members(groups[c][2]) = {1, 2}
       /\ Len(groups[c][1]) = 1
       /\ Len(groups[c][2]) = 1

\* C10, as stated: of a task of seed i that has returned its group, every
\* other listing j of the category that is not in used is in the group when
\* the similarity of the two normalized titles is at least the threshold,
\* and is not in it when the similarity is below.
C10_JoinsWheneverSimilar ==
  \A c \in CatIds : \A f \in GroupTasks(c) :
    LET t == futures[c][f]
        titles == normalized_titles[c]
    IN  \A j \in (1..Len(titles)) \ {t.i} :
          /\ j \in Members(t.group) => SimilarAt(titles[t.i], titles[j], threshold)
          /\ (j \notin used[c] /\ SimilarAt(titles[t.i], titles[j], threshold))
               => j \in Members(t.group)

\* C10, amended: of a task of seed i that has returned its group, every
\* other listing j of the category that is not in used and whose title
\* passes both pre-filters is in the group when the similarity of the two
\* normalized titles is at least the threshold, equality included; and no
\* listing is in the group with a similarity below the threshold.
C10_JoinsWhenSimilarAndPrefiltered ==
  \A c \in CatIds : \A f \in GroupTasks(c) :
    LET t == futures[c][f]
        titles == normalized_titles[c]
    IN  \A j \in (1..Len(titles)) \ {t.i} :
          /\ j \in Members(t.group) => SimilarAt(titles[t.i], titles[j], threshold)
          /\ (/\ j \notin used[c]
              /\ PassesPrefilter(titles[t.i], titles[j])
              /\ SimilarAt(titles[t.i], titles[j], threshold))
               => j \in Members(t.group)

\* A task has returned a group with a listing whose similarity to the seed
\* is exactly the threshold, and beside it a task has left out a listing
\* whose similarity is below the threshold.
C10_Witness ==
  \E c \in CatIds : \E f \in GroupTasks(c) :
    LET t == futures[c][f]
        titles == normalized_titles[c]
    IN  \E j \in Members(t.group) \ {t.i} :
          /\ compute_levenshtein_similarity(titles[t.i], titles[j])[1] * threshold[2]
               = threshold[1] * compute_levenshtein_similarity(titles[t.i], titles[j])[2]
          /\ PassesPrefilter(titles[t.i], titles[j])

(***************************************************************************)
(* Brand resolution on its own                                             *)
(***************************************************************************)
title_vip == <<"V","I","P"," ","l","e","m","o","n">>

title_vip_juice == <<"v","i","p","k_ju","k_seu"," ","l","e","m","o","n">>

title_vip_nasty == <<"V","I","P"," ","N","A","S","T","Y">>

title_juice_nasty == <<"k_ju","k_seu"," ","n","a","s","t","y">>

BrandTitles ==
  { title_vip, title_vip_juice, title_vip_nasty, title_juice_nasty,
    title_nasty_en, title_nasty_ko, title_lemon }

\* The registries SELECT id, name FROM vape_company can return: some of
\* the brands, in any order of the rows.
Registries ==
  UNION { { r \in [1..n -> BrandRows] :
              \A a, b \in 1..n : a # b => r[a] # r[b] } : n \in 0..Cardinality(BrandRows) }

\* A run that has grouped one listing and is about to resolve its brand.
InitBrand ==
  /\ \E known_brands \in Registries : vape_company = known_brands
  /\ \E title \in BrandTitles :
       /\ all_category_products =
            loaded_mapping(<<Scraped(title, 1000, "url_a", "img_a", "juiceshop")>>,
                           1, FALSE)
       /\ final_grouped_products =
            << <<with_type(Scraped(title, 1000, "url_a", "img_a", "juiceshop"),
                           Categories[1])>> >>
  /\ threshold = production_threshold
  /\ normalized_titles = <<<<>>>>
  /\ used = <<{}>>
  /\ groups = <<<<>>>>
  /\ futures = <<<<>>>>
  /\ cat_pc = <<"done">>
  /\ batch_no = <<1>>
  /\ merging = <<0>>
  /\ grouper_pc = "returned"
  /\ brand_cache = <<>>
  /\ vape_products = <<>>
  /\ vape_price_comparisons = <<>>
  /\ vape_price_history = <<>>
  /\ run_pc = "begin_group"
  /\ run_no = 1
  /\ exit_status = 0
  /\ gi = 1
  /\ mi = 0
  /\ group_key = NoKey
  /\ grouping_product_id = 0
  /\ existing_price = <<>>
  /\ old_lowest_price = <<>>
  /\ new_lowest_price = <<>>
  /\ pre = NoPre
  /\ error_log = <<>>
  /\ fn_call = NoCall
  /\ runner_off

NextBrand == BeginGroup

SpecBrand == InitBrand /\ [][NextBrand]_vars

\* The brands of the registry whose name is in the normalized title, by the
\* case-insensitive containment get_company_id_from_title tests.
MatchingBrands(known_brands, normalized_title) ==
  {known_brands[k] : k \in {m \in 1..Len(known_brands) :
     Contains(normalized_title, Lower(known_brands[m].name))}}

\* The matching brands no other matching brand has a longer name than.
LongestMatchingBrands(known_brands, normalized_title) ==
  {b \in MatchingBrands(known_brands, normalized_title) :
     \A o \in MatchingBrands(known_brands, normalized_title) :
       Len(o.name) <= Len(b.name)}

\* C9: when several names of the registry match the normalized title, the
\* company id of the group is that of the longest matching name, in every
\* order of the registry.
C9_LongestMatchFirst ==
  run_pc = "lookup_url" =>
    LET normalized_title == normalize_title_text(group_key.visible_product_name)
    IN  MatchingBrands(vape_company, normalized_title) # {} =>
          group_key.company_id \in
            {b.id : b \in LongestMatchingBrands(vape_company, normalized_title)}

(***************************************************************************)
(* The properties of the reconciliation                                    *)
(***************************************************************************)
\* The identity of a products row, and of a price-comparison row.
ProductTriple(r) == <<r.companyId, r.productGroupingName, r.productCategoryId>>

ComparisonKey(r) == <<r.productId, r.sellerUrl, r.sellerId>>

\* The lowest price among the rows of a product that has a row.
MinPriceOf(comparisons, product_id) ==
  CHOOSE p \in {comparisons[k].price : k \in 1..Len(comparisons)} :
    /\ \E k \in 1..Len(comparisons) :
         comparisons[k].productId = product_id /\ comparisons[k].price = p
    /\ \A k \in 1..Len(comparisons) :
         comparisons[k].productId = product_id => p <= comparisons[k].price

\* C3: from an empty products table, after any number of runs, one after
\* another and each taking its groups in turn, the products table has at
\* most one row per (companyId, productGroupingName, productCategoryId).
C3_OneProductPerTriple ==
  \A a, b \in 1..Len(vape_products) :
    ProductTriple(vape_products[a]) = ProductTriple(vape_products[b]) => a = b

\* In a second run, a group none of whose urls has a row has been given
\* the products row of its triple, which the first run inserted.
C3_Witness ==
  /\ run_no = 2
  /\ run_pc = "lookup_price"
  /\ mi = 1
  /\ \A m \in 1..Len(products_in_group) :
       \A k \in 1..Len(vape_price_comparisons) :
         vape_price_comparisons[k].sellerUrl # get_url(products_in_group[m])
  /\ vape_products = pre.products
  /\ \E k \in 1..Len(vape_products) :
       /\ vape_products[k].id = grouping_product_id
       /\ ProductTriple(vape_products[k]) =
            <<group_key.company_id, group_key.normalize_product_grouping_name,
              group_key.product_category_id>>

\* C4: after any sequence of runs the price-comparison table has at most
\* one row per (productId, sellerUrl, sellerId).
C4_OneComparisonPerKey ==
  \A a, b \in 1..Len(vape_price_comparisons) :
    ComparisonKey(vape_price_comparisons[a]) = ComparisonKey(vape_price_comparisons[b])
      => a = b

\* The row of a listing that was found with another price has been updated
\* in place: the table has the rows it had, and the row has the new price.
C4_Witness ==
  /\ run_pc = "read_new_lowest"
  /\ Len(vape_price_comparisons) = Len(pre.comparisons)
  /\ \E k \in 1..Len(vape_price_comparisons) :
       /\ ComparisonKey(vape_price_comparisons[k]) = ComparisonKey(pre.comparisons[k])
       /\ pre.comparisons[k].price # get_price(product_in_work)
       /\ vape_price_comparisons[k].price = get_price(product_in_work)

\* C5: when the price of a listing differs from the price of its row, a
\* price-history row is appended if and only if the lowest price of the
\* product differs between just before and just after the update of the
\* row; the row has the old minimum, the new minimum and their difference.
C5_HistoryOnlyWhenMinimumChanges ==
  [][ run_pc = "record_history" =>
        LET old == MinPriceOf(pre.comparisons, grouping_product_id)
            new == MinPriceOf(vape_price_comparisons, grouping_product_id)
        IN  /\ pre.comparisons # vape_price_comparisons
            /\ IF old # new
               THEN /\ Len(vape_price_history') = Len(vape_price_history) + 1
                    /\ SubSeq(vape_price_history', 1, Len(vape_price_history))
                         = vape_price_history
                    /\ LET row == vape_price_history'[Len(vape_price_history')]
                       IN  /\ row.productId = grouping_product_id
                           /\ row.oldPrice = old
                           /\ row.newPrice = new
                           /\ row.priceDifference = new - old
                           /\ row.percentageChange[1] * old
                                = (new - old) * 100 * row.percentageChange[2]
               ELSE vape_price_history' = vape_price_history ]_vars

\* Two sellers of one product stood at 1000 and 1200; the second has gone
\* to 1100 and the first to 900, and beside the two rows of the first
\* observations the history holds the one row 1000 -> 900, -100, -10%.
C5_Witness ==
  /\ Len(vape_products) = 1
  /\ {vape_price_comparisons[k].price : k \in 1..Len(vape_price_comparisons)}
       = {900, 1100}
  /\ Len(vape_price_comparisons) = 2
  /\ Len(vape_price_history) = 3
  /\ {vape_price_history[k].newPrice : k \in 1..2} = {1000, 1200}
  /\ vape_price_history[3].oldPrice = 1000
  /\ vape_price_history[3].newPrice = 900
  /\ vape_price_history[3].priceDifference = -100
  /\ vape_price_history[3].percentageChange[1]
       = -10 * vape_price_history[3].percentageChange[2]

\* Whether the table has a row for the listing in work under the product
\* id of its group.
HasComparisonRow ==
  \E k \in 1..Len(vape_price_comparisons) :
    ComparisonKey(vape_price_comparisons[k]) =
      <<grouping_product_id, get_url(product_in_work),
        seller_site_id_of(product_in_work)>>

\* C6: when the table has no row for the (productId, sellerUrl, sellerId)
\* of a listing, the reconciliation of the listing inserts one
\* price-comparison row with the price of the listing, and after it one
\* price-history row with oldPrice 0 and the price as newPrice.
C6_FirstObservation ==
  [][ /\ (run_pc = "lookup_price" /\ seller_site_id_of(product_in_work) # 0
            /\ ~HasComparisonRow)
         => /\ run_pc' = "insert_comparison"
            /\ vape_price_comparisons' = vape_price_comparisons
            /\ vape_price_history' = vape_price_history
      /\ run_pc = "insert_comparison"
         => /\ run_pc' = "insert_history"
            /\ ~HasComparisonRow
            /\ Len(vape_price_comparisons') = Len(vape_price_comparisons) + 1
            /\ SubSeq(vape_price_comparisons', 1, Len(vape_price_comparisons))
                 = vape_price_comparisons
            /\ LET row == vape_price_comparisons'[Len(vape_price_comparisons')]
               IN  /\ ComparisonKey(row) =
                        <<grouping_product_id, get_url(product_in_work),
                          seller_site_id_of(product_in_work)>>
                   /\ row.price = get_price(product_in_work)
            /\ vape_price_history' = vape_price_history
      /\ run_pc = "insert_history"
         => /\ run_pc' # "insert_history"
            /\ vape_price_comparisons' = vape_price_comparisons
            /\ Len(vape_price_history') = Len(vape_price_history) + 1
            /\ SubSeq(vape_price_history', 1, Len(vape_price_history))
                 = vape_price_history
            /\ LET row == vape_price_history'[Len(vape_price_history')]
               IN  /\ row.productId = grouping_product_id
                   /\ row.sellerId = seller_site_id_of(product_in_work)
                   /\ row.oldPrice = 0
                   /\ row.newPrice = get_price(product_in_work) ]_vars

\* A listing without a row has been reconciled: since its lookup the
\* price-comparison table and the price-history table have one row more
\* each, the first with the price of the listing and the second with
\* oldPrice 0 and that price.
C6_Witness ==
  /\ run_pc \in {"lookup_price", "begin_group", "ended"}
  /\ Len(vape_price_comparisons) = Len(pre.comparisons) + 1
  /\ Len(vape_price_history) = Len(pre.history) + 1
  /\ vape_price_history[Len(vape_price_history)].oldPrice = 0
  /\ vape_price_history[Len(vape_price_history)].newPrice =
       vape_price_comparisons[Len(vape_price_comparisons)].price
  /\ vape_price_history[Len(vape_price_history)].productId =
       vape_price_comparisons[Len(vape_price_comparisons)].productId

\* C7: when the row of a listing has the price of the listing, the
\* reconciliation of the listing changes the originTitle of that row and
\* nothing else: not the other fields of the row, no other row, not the
\* products table and not the price-history table.
C7_SamePriceUpdatesTitleOnly ==
  [][ (run_pc = "branch_price"
         /\ existing_price[1].price = get_price(product_in_work))
      => /\ vape_products' = vape_products
         /\ vape_price_history' = vape_price_history
         /\ Len(vape_price_comparisons') = Len(vape_price_comparisons)
         /\ \A k \in 1..Len(vape_price_comparisons) :
              IF vape_price_comparisons[k].id = existing_price[1].id
              THEN vape_price_comparisons'[k] =
                     [vape_price_comparisons[k] EXCEPT
                        !.originTitle = get_title(product_in_work)]
              ELSE vape_price_comparisons'[k] = vape_price_comparisons[k] ]_vars

\* A listing has been found with its price and another title beside a row
\* of a different title: the row has the new title now, and the tables are
\* otherwise as they were at its lookup.
C7_Witness ==
  /\ run_pc \in {"lookup_price", "begin_group", "ended"}
  /\ Len(vape_price_comparisons) = 2
  /\ Len(pre.comparisons) = 2
  /\ vape_price_history = pre.history
  /\ vape_products = pre.products
  /\ \E k \in 1..2 :
       /\ vape_price_comparisons[k].originTitle # pre.comparisons[k].originTitle
       /\ vape_price_comparisons[k] =
            [pre.comparisons[k] EXCEPT
               !.originTitle = vape_price_comparisons[k].originTitle]
       /\ vape_price_comparisons[3 - k] = pre.comparisons[3 - k]
       /\ vape_price_comparisons[3 - k].originTitle
            # vape_price_comparisons[k].originTitle

\* The rows of the price-comparison table with the url of the first member
\* of the group in work whose url has a row.
FirstKnownUrlRows ==
  LET known == {m \in 1..Len(products_in_group) :
                  \E k \in 1..Len(vape_price_comparisons) :
                    vape_price_comparisons[k].sellerUrl = get_url(products_in_group[m])}
      first == CHOOSE m \in known : \A o \in known : m <= o
  IN  IF known = {} THEN {}
      ELSE {vape_price_comparisons[k] : k \in
              {n \in 1..Len(vape_price_comparisons) :
                 vape_price_comparisons[n].sellerUrl = get_url(products_in_group[first])}}

\* The rows the products table had for the triple of the group in work
\* when the group was begun.
TripleRows ==
  {pre.products[k] : k \in
     {n \in 1..Len(pre.products) :
        ProductTriple(pre.products[n]) =
          <<group_key.company_id, group_key.normalize_product_grouping_name,
            group_key.product_category_id>>}}

\* C8: the identity of a group is resolved in a strict order: when the url
\* of a member has a row in the price-comparison table, the product id of
\* that row is the identity, whatever the triple would find; else the
\* products row of the triple; and a products row is inserted only when
\* neither is found.
C8_IdentityPriority ==
  (run_pc = "lookup_price" /\ mi = 1) =>
    IF FirstKnownUrlRows # {}
    THEN /\ grouping_product_id \in {r.productId : r \in FirstKnownUrlRows}
         /\ vape_products = pre.products
    ELSE IF TripleRows # {}
    THEN /\ grouping_product_id \in {r.id : r \in TripleRows}
         /\ vape_products = pre.products
    ELSE /\ Len(vape_products) = Len(pre.products) + 1
         /\ SubSeq(vape_products, 1, Len(pre.products)) = pre.products
         /\ vape_products[Len(vape_products)].id = grouping_product_id
         /\ ProductTriple(vape_products[Len(vape_products)]) =
              <<group_key.company_id, group_key.normalize_product_grouping_name,
                group_key.product_category_id>>
         /\ \A k \in 1..Len(pre.products) : pre.products[k].id # grouping_product_id

\* The url of a member has decided the identity of a group against the
\* triple: the products table has a row for the triple, and it is not the
\* row of the product id the url gave.
C8_Witness ==
  /\ run_pc = "lookup_price"
  /\ mi = 1
  /\ FirstKnownUrlRows # {}
  /\ TripleRows # {}
  /\ grouping_product_id \notin {r.id : r \in TripleRows}

(***************************************************************************)
(* The pure functions on their own                                         *)
(***************************************************************************)
title_new_mint == <<"3","0","m","l"," ","N","E","W"," ","M","i","n","t">>

title_juice_box == <<"J","u","i","c","e"," "," ","B","o","x">>

title_one_token == <<"k_ne","k_seu","k_ti","k_min","k_teu">>

\* The strings compute_levenshtein_similarity is called with.
SimilarityStrings ==
  { <<>>, <<"a">>, title_lemon, title_melon, title_lemur, title_one_token }

\* The titles normalize_title_text is called with.
NormalizeTitles ==
  { <<>>, title_new_mint, title_juice_box, title_one_token, title_nasty_en,
    title_nasty_ko, title_lemon, title_volume, title_vip, title_vip_juice,
    title_vip_nasty, title_juice_nasty }

\* The token lists whose every order normalize_product_grouping_key is
\* called with.
KeyTokenLists ==
  { <<title_one_token, title_lemon, <<"b">> >>,
    << <<"k_ne","k_seu","k_ti">>, <<"k_min","k_teu">>, <<"v","i","p">> >>,
    << <<"a","b">>, <<"a">>, <<"B","!">> >>,
    << title_melon, title_lemon >> }

\* The orders of a list: the lists of its length that take each position
\* once.
Orders(tokens) ==
  { [k \in 1..Len(tokens) |-> tokens[order[k]]] :
      order \in { o \in [1..Len(tokens) -> 1..Len(tokens)] :
                    \A a, b \in 1..Len(tokens) : a # b => o[a] # o[b] } }

KeyTitles == UNION { { Join(o, 1) : o \in Orders(tokens) } : tokens \in KeyTokenLists }

FunctionCalls ==
  { [fn |-> "compute_levenshtein_similarity", args |-> <<a, b>>, result |-> <<>>] :
      a \in SimilarityStrings, b \in SimilarityStrings }
  \cup { [fn |-> "normalize_title_text", args |-> <<t>>, result |-> <<>>] :
           t \in NormalizeTitles }
  \cup { [fn |-> "normalize_product_grouping_key", args |-> <<t>>, result |-> <<>>] :
           t \in KeyTitles }

CallSimilarity ==
  /\ fn_call.fn = "compute_levenshtein_similarity"
  /\ fn_call.result = <<>>
  /\ fn_call' = [fn_call EXCEPT !.result =
       <<compute_levenshtein_similarity(fn_call.args[1], fn_call.args[2])>>]
  /\ UNCHANGED <<gvars, rvars, nvars>>

CallNormalize ==
  /\ fn_call.fn = "normalize_title_text"
  /\ fn_call.result = <<>>
  /\ fn_call' = [fn_call EXCEPT !.result = <<normalize_title_text(fn_call.args[1])>>]
  /\ UNCHANGED <<gvars, rvars, nvars>>

CallGroupingKey ==
  /\ fn_call.fn = "normalize_product_grouping_key"
  /\ fn_call.result = <<>>
  /\ fn_call' = [fn_call EXCEPT !.result =
       <<normalize_product_grouping_key(fn_call.args[1])>>]
  /\ UNCHANGED <<gvars, rvars, nvars>>

InitCall ==
  /\ run_idle
  /\ all_category_products = <<>>
  /\ threshold = production_threshold
  /\ normalized_titles = <<>>
  /\ used = <<>>
  /\ groups = <<>>
  /\ futures = <<>>
  /\ cat_pc = <<>>
  /\ batch_no = <<>>
  /\ merging = <<>>
  /\ grouper_pc = "idle"
  /\ fn_call \in FunctionCalls
  /\ runner_off

NextCall == CallSimilarity \/ CallNormalize \/ CallGroupingKey

SpecCall == InitCall /\ [][NextCall]_vars

\* C11: compute_levenshtein_similarity returns 1 - distance/max(len) for
\* two non-empty strings, 1 when both strings are empty and 0 when exactly
\* one of them is empty.
C11_SimilarityContract ==
  (fn_call.fn = "compute_levenshtein_similarity" /\ fn_call.result # <<>>) =>
    LET a == fn_call.args[1]
        b == fn_call.args[2]
        sim == fn_call.result[1]
    IN  IF Len(a) > 0 /\ Len(b) > 0
        THEN sim[1] * Max2(Len(a), Len(b))
               = (Max2(Len(a), Len(b)) - LevenshteinDistance(a, b)) * sim[2]
        ELSE IF Len(a) = 0 /\ Len(b) = 0
        THEN sim[1] = sim[2]
        ELSE sim[1] = 0

\* C12: normalize_title_text is idempotent: the normalized title of a
\* normalized title is that normalized title.
C12_NormalizeIdempotent ==
  (fn_call.fn = "normalize_title_text" /\ fn_call.result # <<>>) =>
    normalize_title_text(fn_call.result[1]) = fn_call.result[1]

\* The tokens of a title as the key builder cleans them, and as the
\* automatic spacing leaves them.
CleanTokens(title) == Split(Lower(RemoveSpecials(title)), 1)

SpacedTokens(title) ==
  Split(Spacing(CollapseSpaces(Lower(RemoveSpecials(title))), 1), 1)

\* No word is before a later word in the descending order.
IsDescending(words) ==
  \A a, b \in 1..Len(words) : a < b => ~StrLess(words[a], words[b], 1)

\* The titles called with that hold the tokens of title in some order.
Reorderings(title) ==
  {t \in KeyTitles : Split(t, 1) \in Orders(Split(title, 1))}

TwoSpellingsReconciled ==
  /\ run_no = 1
  /\ run_pc = "ended"
  /\ Len(all_category_products) = 1
  /\ Len(all_category_products[1].products) = 2
  /\ {p.title : p \in Members(all_category_products[1].products)}
       = {title_nasty_en, title_nasty_ko}
  /\ {p.url : p \in Members(all_category_products[1].products)}
       = {"url_a", "url_b"}

\* C14: two listings of one category from two sellers, 'NASTY Mint 30ml' at
\* one url and its Korean spelling at another, reconciled against empty
\* tables, end as exactly one products row and exactly two price-comparison
\* rows that both name it, one per url, whatever the schedule of the
\* grouper's tasks was.
C14_TwoSellersOneProduct ==
  TwoSpellingsReconciled =>
    /\ exit_status = 0
    /\ Len(vape_products) = 1
    /\ Len(vape_price_comparisons) = 2
    /\ \A k \in 1..2 : vape_price_comparisons[k].productId = vape_products[1].id
    /\ {vape_price_comparisons[k].sellerUrl : k \in 1..2} = {"url_a", "url_b"}

\* Such a run has ended after the grouper returned two groups, each of both
\* listings: both tasks had scanned before either result was merged.
C14_Witness ==
  /\ TwoSpellingsReconciled
  /\ Len(final_grouped_products) = 2
  /\ \A g \in 1..2 : Len(final_grouped_products[g]) = 2

\* Such a run has ended after the grouper returned one group.
C14_WitnessOneGroup ==
  /\ TwoSpellingsReconciled
  /\ Len(final_grouped_products) = 1

(***************************************************************************)
(* Runs that fail                                                          *)
(***************************************************************************)
\* What a run logs when it cannot go on: at its start, at the fetch of a
\* registry, or at a statement of the reconciliation (the error is then
\* named by the place of the statement).
StartErrors == {"no_files", "connect", "no_products"}

RegistryErrors == {"no_sellers", "no_categories", "no_brands"}

StatementPlaces ==
  {"lookup_url", "lookup_product", "insert_product", "lookup_price",
   "branch_price", "update_price", "read_new_lowest", "record_history",
   "insert_comparison", "insert_history"}

\* The exit status: exit(1) in the registry fetchers and the traceback of
\* the exception connect() raises give 1; exit() without an argument, in
\* every handler of the main script, gives 0.
exit_code(kind) ==
  IF kind \in RegistryErrors \cup {"connect"} THEN 1 ELSE 0

\* A handler that tries the statement again.
handler_retry(place) == place

\* Where the run stands after the handler of an error at place: every
\* handler ends in exit().
handler_exit(place) == "ended"

\* A registry that is fetched whenever a group is begun.
fetched_per_group(cache) == TRUE

\* The registries are fetched before the first group is begun: the seller
\* sites and the categories before the loop, the brands by the first call
\* of get_company_id_from_title, which caches them.
fetch_due(cache) == Len(cache) = 0

\* Lines 378-394: the run ends before the grouper is called.
AbortAtStart(kind) ==
  /\ run_pc = "idle"
  /\ run_no < MaxRuns
  /\ run_no' = run_no + 1
  /\ error_log' = <<kind>>
  /\ exit_status' = exit_code(kind)
  /\ run_pc' = "ended"
  /\ UNCHANGED <<gvars, cvars, vape_company, brand_cache, vape_products,
                 vape_price_comparisons, vape_price_history,
                 final_grouped_products, gi, mi, group_key, grouping_product_id,
                 existing_price, old_lowest_price, new_lowest_price, pre>>

\* Lines 378-382: no result file.
StartWithoutFiles == AbortAtStart("no_files")

\* Lines 385-388 and connect(): the connection fails, connect() raises.
ConnectFails == AbortAtStart("connect")

\* Lines 392-394: the files hold no product.
LoadNothing == AbortAtStart("no_products")

\* Lines 47-113: a registry fetch returns no row or raises.
RegistryFetchFails ==
  /\ run_pc = "begin_group"
  /\ fetch_due(brand_cache)
  /\ \E kind \in RegistryErrors :
       /\ error_log' = Append(error_log, kind)
       /\ exit_status' = exit_code(kind)
  /\ run_pc' = "ended"
  /\ UNCHANGED <<gvars, cvars, vape_company, brand_cache, vape_products,
                 vape_price_comparisons, vape_price_history, run_no,
                 final_grouped_products, gi, mi, group_key, grouping_product_id,
                 existing_price, old_lowest_price, new_lowest_price, pre>>

\* The end of a run at the handlers of lines 459-470 and 553-556.
caught(place) ==
  /\ error_log' = Append(error_log, place)
  /\ exit_status' = exit_code(place)
  /\ run_pc' = handler_exit(place)

\* A statement of the reconciliation raises (the connector has rolled it
\* back and raised again): the tables are as they were.
DataAccessError ==
  /\ run_pc \in StatementPlaces
  /\ run_pc = "lookup_price" => seller_site_id_of(product_in_work) # 0
  /\ run_pc = "record_history" => lowest_changed(old_lowest_price, new_lowest_price)
  /\ caught(run_pc)
  /\ UNCHANGED <<gvars, cvars, vape_company, brand_cache, vape_products,
                 vape_price_comparisons, vape_price_history, run_no,
                 final_grouped_products, gi, mi, group_key, grouping_product_id,
                 existing_price, old_lowest_price, new_lowest_price, pre>>

\* The insert of the products row meets a row of the same triple that
\* another writer has put there since the lookup, and raises.
InsertProductConflict ==
  /\ run_pc = "insert_product"
  /\ vape_products' = Append(vape_products,
       product_data(next_id(vape_products), group_key, ""))
  /\ caught(run_pc)
  /\ UNCHANGED <<gvars, cvars, vape_company, brand_cache,
                 vape_price_comparisons, vape_price_history, run_no,
                 final_grouped_products, gi, mi, group_key, grouping_product_id,
                 existing_price, old_lowest_price, new_lowest_price, pre>>

\* The insert of the price-comparison row meets a row of the same
\* (productId, sellerUrl, sellerId) that another writer has put there since
\* the lookup, and raises.
InsertComparisonConflict ==
  /\ run_pc = "insert_comparison"
  /\ vape_price_comparisons' = Append(vape_price_comparisons,
       price_comparison_data(next_id(vape_price_comparisons), grouping_product_id,
                             product_in_work))
  /\ caught(run_pc)
  /\ UNCHANGED <<gvars, cvars, vape_company, brand_cache, vape_products,
                 vape_price_history, run_no,
                 final_grouped_products, gi, mi, group_key, grouping_product_id,
                 existing_price, old_lowest_price, new_lowest_price, pre>>

Failing ==
  \/ StartWithoutFiles
  \/ ConnectFails
  \/ LoadNothing
  \/ RegistryFetchFails
  \/ DataAccessError
  \/ InsertProductConflict
  \/ InsertComparisonConflict

\* The runs of VapeSort, any of which may fail.
NextFault == StartRun \/ Grouping \/ Reconciling \/ ExitProcess \/ Failing

SpecFault == Init /\ [][NextFault]_vars

\* The kinds of error the run has logged.
Logged == {error_log[k] : k \in 1..Len(error_log)}

\* C15: a run that ended by a fatal abort - no input file, no connection,
\* no loaded product, a registry fetch without rows or with an error, an
\* error at a statement of the identity resolution, the product insert or
\* the price-comparison upsert - ended with an exit status other than 0.
C15_FatalAbortExitsNonZero ==
  (/\ run_pc = "ended"
   /\ Logged \cap (StartErrors \cup RegistryErrors \cup StatementPlaces) # {})
    => exit_status # 0

\* C16: a run is aborted at the insert of a products row, or of a
\* price-comparison row, only when no row of the triple, or of the
\* (productId, sellerUrl, sellerId), is there to be read: with a
\* conflicting row the reconciler goes on with that row.
C16_AbortOnlyWithoutConflictingRow ==
  /\ (run_pc = "ended" /\ "insert_product" \in Logged) =>
       products_by_key(vape_products, group_key.company_id,
                       group_key.normalize_product_grouping_name,
                       group_key.product_category_id) = {}
  /\ (run_pc = "ended" /\ "insert_comparison" \in Logged) =>
       comparisons_by_key(vape_price_comparisons, grouping_product_id,
                          get_url(product_in_work),
                          seller_site_id_of(product_in_work)) = {}

\* C17: once a statement of the reconciliation has raised, the run has
\* ended, and the one step that follows is the end of the process: no
\* table changes, no listing and no group is taken up.
C17_FailFast ==
  [][ (Logged \cap StatementPlaces # {}) =>
        /\ run_pc = "ended"
        /\ run_pc' = "idle"
        /\ vape_products' = vape_products
        /\ vape_price_comparisons' = vape_price_comparisons
        /\ vape_price_history' = vape_price_history ]_vars

\* A statement has raised while a listing of the group and a group of the
\* run were still to come, the tables holding rows.
C17_Witness ==
  /\ run_pc = "ended"
  /\ Logged \cap StatementPlaces # {}
  /\ gi < Len(final_grouped_products)
  /\ mi < Len(products_in_group)
  /\ vape_price_comparisons # <<>>

\* C18: a run that ended because the fetch of the brand, seller-site or
\* category registry gave no row or raised has left the products, the
\* price-comparison and the price-history table as they were when it
\* started (StartRunOn keeps them in pre, which the first group alone
\* overwrites).
C18_RegistryAbortBeforeAnyWrite ==
  (run_pc = "ended" /\ Logged \cap RegistryErrors # {}) =>
    /\ vape_products = pre.products
    /\ vape_price_comparisons = pre.comparisons
    /\ vape_price_history = pre.history
    /\ grouping_product_id = 0
    /\ gi = 1

\* A second run has ended at a registry fetch, the first having left rows.
C18_Witness ==
  /\ run_pc = "ended"
  /\ Logged \cap RegistryErrors # {}
  /\ run_no = 2
  /\ vape_products # <<>>
  /\ vape_price_comparisons # <<>>
  /\ vape_price_history # <<>>

(***************************************************************************)
(* Listings that lack a field                                              *)
(***************************************************************************)
\* What a crawler may report of a listing of no known brand when it found
\* no price, no url, or neither.
SparseListings ==
  { [title |-> title_lemon, source_file |-> "juiceshop"],
    [title |-> title_lemon, source_file |-> "juiceshop", price |-> 1000],
    [title |-> title_lemon, source_file |-> "juiceshop", url |-> "url_a"] }

\* The titles of the listings that match no brand of the registry.
Brandless == {title_lemon, title_melon}

\* What the other crawler may report of its listings at url_b and url_c.
FullListings ==
  { Scraped(title_nasty_ko, 1200, "url_b", "", "vapemonster"),
    Scraped(title_melon, 1200, "url_c", "", "vapemonster") }

\* The records of one run: a listing that lacks a field, alone, before or
\* after a listing of the other seller.
SparseRecords ==
  { <<s>> : s \in SparseListings }
  \cup { <<s, b>> : s \in SparseListings, b \in FullListings }
  \cup { <<b, s>> : s \in SparseListings, b \in FullListings }

StartSparseRun == StartRunOn(SparseRecords)

NextSparse == StartSparseRun \/ Grouping \/ Reconciling \/ ExitProcess

SpecSparse == Init /\ [][NextSparse]_vars

\* The listings the run has loaded.
Loaded ==
  UNION { Members(all_category_products[c].products) :
            c \in 1..Len(all_category_products) }

\* The url and the price a listing is carried on with.
UrlOrEmpty(p) == IF "url" \in DOMAIN p THEN p.url ELSE ""

PriceOrZero(p) == IF "price" \in DOMAIN p THEN p.price ELSE 0

\* C19: a run whose listings lack a brand match, a price or a url ends
\* regularly, after its last group: the unknown brand has been logged as a
\* warning and nothing as an error, every listing has its price-comparison
\* row with the url it came with or '', the price it came with or 0, and
\* the row of a listing without a brand match names a product of
\* companyId 1.
C19_SparseListingCarriedOn ==
  run_pc = "ended" =>
    /\ exit_status = 0
    /\ gi = 0
    /\ Logged \subseteq {"unknown_company"}
    /\ \A p \in Loaded :
         \E row \in Rows(vape_price_comparisons) :
           /\ row.sellerUrl = UrlOrEmpty(p)
           /\ row.price = PriceOrZero(p)
           /\ row.originTitle = p.title
           /\ p.title \in Brandless =>
                /\ "unknown_company" \in Logged
                /\ \E product \in Rows(vape_products) :
                     product.id = row.productId /\ product.companyId = 1

\* A run has ended that loaded a listing without price and url before a
\* listing of another seller, and reconciled two groups.
C19_Witness ==
  /\ run_pc = "ended"
  /\ Len(final_grouped_products) = 2
  /\ "price" \notin DOMAIN final_grouped_products[1][1]
  /\ "url" \notin DOMAIN final_grouped_products[1][1]
  /\ final_grouped_products[2][1].title = title_nasty_ko
  /\ gi = 0
  /\ \E row \in Rows(vape_price_comparisons) : row.sellerUrl = "url_b"
  /\ \E row \in Rows(vape_price_comparisons) : row.sellerUrl = "" /\ row.price = 0

(***************************************************************************)
(* Rows once written                                                       *)
(***************************************************************************)
\* C20: through every step of every run, the products table keeps each of
\* its rows, with its id and its imageUrl, and the price-history table
\* keeps each of its rows as it is: the two tables only grow.
C20_RowsStable ==
  [][ /\ Len(vape_products') >= Len(vape_products)
      /\ \A k \in 1..Len(vape_products) :
           /\ vape_products'[k].id = vape_products[k].id
           /\ vape_products'[k].imageUrl = vape_products[k].imageUrl
      /\ Len(vape_price_history') >= Len(vape_price_history)
      /\ \A k \in 1..Len(vape_price_history) :
           vape_price_history'[k] = vape_price_history[k] ]_vars

\* A second run has written a second history row of a product and a seller,
\* and a second run has met a product whose image it could have replaced.
C20_Witness ==
  /\ run_no = 2
  /\ \E a, b \in 1..Len(vape_price_history) :
       /\ a < b
       /\ vape_price_history[a].productId = vape_price_history[b].productId
       /\ vape_price_history[a].sellerId = vape_price_history[b].sellerId
  /\ \E product \in Rows(vape_products) :
       /\ product.imageUrl = ""
       /\ \E p \in Loaded : get_image_url(p) # ""

(***************************************************************************)
(* The grouper on titles and categories that hold nothing                  *)
(***************************************************************************)
\* C21: group_products_by_similarity raises no exception, whatever the
\* mapping: no task and no category raises, also for a title that
\* normalizes to the empty string and for a category without listings.
C21_GrouperNeverRaises ==
  /\ grouper_pc # "raised"
  /\ \A c \in CatIds : cat_pc[c] # "raised"
  /\ \A c \in CatIds : \A f \in 1..Len(futures[c]) :
       futures[c][f].result # "raised"

(***************************************************************************)
(* The brand as the head of the title                                      *)
(***************************************************************************)
\* The rows of the registry whose name, in lower case, the title starts
\* with.
PrefixBrands(known_brands, normalized_title) ==
  {known_brands[k] : k \in
     {n \in 1..Len(known_brands) :
        StartsWith(normalized_title, Lower(known_brands[n].name))}}

\* C22: the companyId of a group is the id of a registry brand whose name
\* the normalized title starts with, and the sentinel 1 when the title
\* starts with no brand name, whatever brand names occur further inside it.
C22_BrandMatchesAsPrefix ==
  (run_pc = "lookup_url" /\ Len(brand_cache) = 1) =>
    LET heads == PrefixBrands(brand_cache[1], group_key.visible_product_name)
    IN  IF heads = {}
        THEN group_key.company_id = 1
        ELSE group_key.company_id \in {row.id : row \in heads}

(***************************************************************************)
(* The change of a minimum that was 0                                      *)
(***************************************************************************)
\* C23: the step that records a changed minimum appends one history row
\* also when the old minimum is 0, then with percentageChange 0, and the
\* run goes on; with an old minimum other than 0 the percentageChange is
\* (newLowest - oldLowest) / oldLowest * 100.
C23_PercentageChangeGuarded ==
  [][ (/\ run_pc = "record_history"
       /\ Len(old_lowest_price) > 0
       /\ Len(new_lowest_price) > 0
       /\ old_lowest_price[1] # new_lowest_price[1]) =>
        /\ Len(vape_price_history') = Len(vape_price_history) + 1
        /\ LET row == vape_price_history'[Len(vape_price_history')]
               old == old_lowest_price[1]
               new == new_lowest_price[1]
           IN  /\ row.oldPrice = old
               /\ row.newPrice = new
               /\ row.percentageChange[2] # 0
               /\ IF old = 0
                  THEN row.percentageChange[1] = 0
                  ELSE row.percentageChange[1] * old
                         = (new - old) * 100 * row.percentageChange[2]
        /\ Logged' = Logged
        /\ (run_pc' = "ended" => exit_status' = 0) ]_vars

\* A history row of a minimum that rose from 0 has been appended.
C23_Witness ==
  \E k \in 1..Len(vape_price_history) :
    /\ "percentageChange" \in DOMAIN vape_price_history[k]
    /\ vape_price_history[k].oldPrice = 0
    /\ vape_price_history[k].newPrice > 0
    /\ vape_price_history[k].percentageChange[1] = 0

\* A history row of a minimum that fell to 0 has been appended.
C23_WitnessNonZero ==
  \E k \in 1..Len(vape_price_history) :
    /\ "percentageChange" \in DOMAIN vape_price_history[k]
    /\ vape_price_history[k].oldPrice > 0
    /\ vape_price_history[k].percentageChange[1] < 0

(***************************************************************************)
(* VapeRunner                                                              *)
(***************************************************************************)
\* The most cycles of VapeRunner.
MaxCycles == 3

\* The sites whose crawlers save a file.
Sites == {"juiceshop", "vapemonster"}

\* Where run_process returns to: the sleep of the interval mode, or the end
\* of main.
returned(with_interval) == IF with_interval THEN "sleeping" ELSE "exited"

\* A run_process that goes on to VapeSort whatever the crawler reported.
sort_whatever(success, with_interval) == "sort"

\* Lines 151-157: without success of the crawler run_process returns at
\* once, else VapeSort is run.
after_crawler(success, with_interval) ==
  IF success THEN "sort" ELSE returned(with_interval)

\* Lines 168-180 and 147-151: a cycle begins, at the start of main or after
\* the sleep, with the crawler.
StartCycle ==
  /\ runner_pc \in {"main", "sleeping"}
  /\ cycle < MaxCycles
  /\ cycle' = cycle + 1
  /\ runner_pc' = "crawler"
  /\ crawler_success' = FALSE
  /\ sort_success' = FALSE
  /\ sort_loaded' = {}
  /\ UNCHANGED <<gvars, rvars, fn_call, interval, results>>

\* VapeCrawler.save_results: a crawler thread writes its file, named by the
\* site and the time.
SaveResults ==
  /\ runner_pc = "crawler"
  /\ \E site \in Sites : results' = results \cup {[site |-> site, cycle |-> cycle]}
  /\ UNCHANGED <<gvars, rvars, fn_call, runner_pc, interval, cycle,
                 crawler_success, sort_success, sort_loaded>>

\* Lines 42-64 and 151-154: the crawler process has ended, with status 0 or
\* with another (an exception of its main thread, a signal).
CrawlerEnds ==
  /\ runner_pc = "crawler"
  /\ \E success \in BOOLEAN :
       /\ crawler_success' = success
       /\ runner_pc' = after_crawler(success, interval)
  /\ UNCHANGED <<gvars, rvars, fn_call, interval, cycle, results, sort_success,
                 sort_loaded>>

\* Lines 66-88 and 157-159, VapeSort lines 364-377: VapeSort lists the
\* .json files of results/ and ends with status 0 or with another.
SortRuns ==
  /\ runner_pc = "sort"
  /\ sort_loaded' = results
  /\ \E success \in BOOLEAN : sort_success' = success
  /\ runner_pc' = "cleanup"
  /\ UNCHANGED <<gvars, rvars, fn_call, interval, cycle, results, crawler_success>>

\* Lines 90-118 and 162-166: every .json file is removed; a file whose
\* removal raised is logged and stays.
CleanJsonFiles ==
  /\ runner_pc = "cleanup"
  /\ \E kept \in SUBSET results : results' = kept
  /\ runner_pc' = returned(interval)
  /\ UNCHANGED <<gvars, rvars, fn_call, interval, cycle, crawler_success,
                 sort_success, sort_loaded>>

InitRunner ==
  /\ run_idle
  /\ all_category_products = <<>>
  /\ threshold = production_threshold
  /\ normalized_titles = <<>>
  /\ used = <<>>
  /\ groups = <<>>
  /\ futures = <<>>
  /\ cat_pc = <<>>
  /\ batch_no = <<>>
  /\ merging = <<>>
  /\ grouper_pc = "idle"
  /\ fn_call = NoCall
  /\ runner_pc = "main"
  /\ interval \in BOOLEAN
  /\ cycle = 0
  /\ results = {}
  /\ crawler_success = FALSE
  /\ sort_success = FALSE
  /\ sort_loaded = {}

NextRunner == StartCycle \/ SaveResults \/ CrawlerEnds \/ SortRuns \/ CleanJsonFiles

SpecRunner == InitRunner /\ [][NextRunner]_vars

\* C24: in every cycle VapeSort is started only by the step that ends a
\* crawler of this cycle with success; when VapeSort has ended, with or
\* without success, the next step is the cleanup, and the cleanup is begun
\* by no other step; a cycle begins only when no cycle is under way: at the
\* start of main or, in interval mode, after the cycle before has returned.
C24_CrawlerSortCleanup ==
  [][ /\ (runner_pc' = "sort" /\ runner_pc # "sort") =>
           /\ runner_pc = "crawler"
           /\ crawler_success'
           /\ cycle' = cycle
      /\ (runner_pc = "sort" /\ runner_pc' # "sort") => runner_pc' = "cleanup"
      /\ (runner_pc' = "cleanup" /\ runner_pc # "cleanup") =>
           runner_pc = "sort" /\ cycle' = cycle
      /\ cycle' # cycle =>
           /\ cycle' = cycle + 1
           /\ runner_pc' = "crawler"
           /\ runner_pc = "main" \/ (interval /\ runner_pc = "sleeping") ]_vars

\* A third cycle of the interval mode is at its cleanup after a VapeSort
\* that failed, an earlier cycle having ended at a crawler that failed.
C24_Witness ==
  /\ interval
  /\ cycle = 3
  /\ runner_pc = "cleanup"
  /\ crawler_success
  /\ ~sort_success

\* C30: the .json files of results/ are of the cycle under way, and so are
\* the files VapeSort lists: a cycle begins with no file of an earlier one.
C30_OnlyFilesOfThisCycle ==
  /\ \A f \in results : f.cycle = cycle
  /\ \A f \in sort_loaded : f.cycle = cycle

(***************************************************************************)
(* Groups and categories                                                   *)
(***************************************************************************)
\* C25: every group the grouper returns holds listings of one category,
\* the one it was formed in: the category the reconciler reads off the
\* first member is the category of every member.
C25_GroupOfOneCategory ==
  grouper_pc = "returned" =>
    \A c \in CatIds :
      \A g \in 1..Len(groups_of(c)) :
        \A m \in 1..Len(groups_of(c)[g]) :
          /\ groups_of(c)[g][m].product_type = all_category_products[c].category
          /\ product_category_list[groups_of(c)[g][m].product_type].id
               = product_category_list[groups_of(c)[g][1].product_type].id

\* The grouper has returned the groups of two categories that hold the two
\* spellings of one product, one each: in one category they are one group.
C25_Witness ==
  /\ grouper_pc = "returned"
  /\ Len(all_category_products) = 2
  /\ Len(all_groups(1)) = 2
  /\ {all_groups(1)[g][1].title : g \in 1..2} = {title_nasty_en, title_nasty_ko}
  /\ all_groups(1)[1][1].product_type # all_groups(1)[2][1].product_type

(***************************************************************************)
(* One url, one product                                                    *)
(***************************************************************************)
\* C26: after any runs from empty tables, the price-comparison rows of one
\* sellerUrl name one productId.
C26_UrlOfOneProduct ==
  \A a, b \in 1..Len(vape_price_comparisons) :
    vape_price_comparisons[a].sellerUrl = vape_price_comparisons[b].sellerUrl
      => vape_price_comparisons[a].productId = vape_price_comparisons[b].productId

(***************************************************************************)
(* A run repeated on unchanged input                                       *)
(***************************************************************************)
\* Lines 366-369 and 390: every json file of the results folder is loaded and
\* nothing removes a listing that occurs twice.  Here the listing at url_a is
\* in two files, an older one and one written after its title and its price
\* had changed.
ListingInTwoFiles ==
  << Scraped(title_nasty_en, 1000, "url_a", "img_a", "juiceshop"),
     Scraped(title_nasty_ko, 900, "url_a", "img_a", "juiceshop") >>

\* Every run loads the same files.
StartSameRun == StartRunOn({ListingInTwoFiles})

NextTwice == StartSameRun \/ Grouping \/ Reconciling \/ ExitProcess

SpecTwice == Init /\ [][NextTwice]_vars

\* C27: reconciling the same listings a second time inserts no products row,
\* no price-comparison row and no PriceHistory row and changes no stored
\* price, whatever groups the grouper returns in either run.
C27_SecondRunChangesNothing ==
  [][ run_no > 1 /\ run_pc # "idle" =>
        /\ Len(vape_products') = Len(vape_products)
        /\ Len(vape_price_comparisons') = Len(vape_price_comparisons)
        /\ Len(vape_price_history') = Len(vape_price_history)
        /\ \A r \in 1..Len(vape_price_comparisons) :
             vape_price_comparisons'[r].price = vape_price_comparisons[r].price
    ]_vars

(***************************************************************************)
(* The first observation of an inserted row                                *)
(***************************************************************************)
\* The runs of VapeSort with no other writer on the tables: a statement of
\* the reconciliation may raise, and the handlers of lines 459-470 and
\* 553-556 end the run.
NextError == StartRun \/ Grouping \/ Reconciling \/ ExitProcess \/ DataAccessError

SpecError == Init /\ [][NextError]_vars

\* C28: at the end of every run, also of a run a data-access error has
\* aborted, each price-comparison row the reconciler has inserted has a
\* first-observation PriceHistory row (oldPrice 0) of its productId and
\* sellerId.
C28_FirstObservationRecorded ==
  run_pc \in {"ended", "idle"} =>
    \A r \in 1..Len(vape_price_comparisons) :
      \E h \in 1..Len(vape_price_history) :
        /\ vape_price_history[h].productId = vape_price_comparisons[r].productId
        /\ vape_price_history[h].sellerId = vape_price_comparisons[r].sellerId
        /\ vape_price_history[h].oldPrice = 0

(***************************************************************************)
(* The history of the minimum price                                        *)
(***************************************************************************)
\* The minimum price of the product, over all its rows, is not what it was
\* when the work on the listing began (a product without a row had none).
MinimumChanged(before, after, product_id) ==
  /\ \E k \in 1..Len(after) : after[k].productId = product_id
  /\ (\E k \in 1..Len(before) : before[k].productId = product_id)
       => MinPriceOf(before, product_id) # MinPriceOf(after, product_id)

\* C29: in a run without error, when the insert of a price-comparison row,
\* or the update of the price of one, has changed the minimum price of the
\* product over all its rows, the work on that listing ends with one
\* PriceHistory row appended, of that product, whose newPrice is the new
\* minimum price.
C29_MinimumChangeRecorded ==
  [][ (/\ run_pc \in {"record_history", "insert_history"}
       /\ MinimumChanged(pre.comparisons, vape_price_comparisons,
                         grouping_product_id))
        => /\ vape_price_comparisons' = vape_price_comparisons
           /\ Len(vape_price_history) = Len(pre.history)
           /\ Len(vape_price_history') = Len(vape_price_history) + 1
           /\ vape_price_history'[Len(vape_price_history')].productId =
                grouping_product_id
           /\ vape_price_history'[Len(vape_price_history')].newPrice =
                MinPriceOf(vape_price_comparisons, grouping_product_id)
    ]_vars

\* The update of a price has changed the minimum price of a product, and
\* the row of the change is the last of the history.
C29_Witness ==
  /\ pre # NoPre
  /\ Len(vape_price_comparisons) = Len(pre.comparisons)
  /\ MinimumChanged(pre.comparisons, vape_price_comparisons, grouping_product_id)
  /\ Len(vape_price_history) = Len(pre.history) + 1
  /\ vape_price_history[Len(vape_price_history)].oldPrice =
       MinPriceOf(pre.comparisons, grouping_product_id)
  /\ vape_price_history[Len(vape_price_history)].newPrice =
       MinPriceOf(vape_price_comparisons, grouping_product_id)

\* The row of a second seller has been inserted below the minimum price of
\* the product, and its first observation is the last row of the history.
C29_WitnessInsert ==
  /\ pre # NoPre
  /\ Len(vape_price_comparisons) = Len(pre.comparisons) + 1
  /\ \E k \in 1..Len(pre.comparisons) :
       pre.comparisons[k].productId = grouping_product_id
  /\ MinimumChanged(pre.comparisons, vape_price_comparisons, grouping_product_id)
  /\ Len(vape_price_history) = Len(pre.history) + 1
  /\ vape_price_history[Len(vape_price_history)].oldPrice = 0
  /\ vape_price_history[Len(vape_price_history)].newPrice =
       MinPriceOf(vape_price_comparisons, grouping_product_id)

====
